---- MODULE Spec2Model ----
(***************************************************************************)
(* Model of the provider layer of mercury_agent: the three vendor adapters *)
(* (anthropic_client.py, openai_client.py, ollama_client.py), their error  *)
(* classification, the retry/backoff logic of the Anthropic adapter and    *)
(* the streaming decoders.  One behaviour is one chat() call on one        *)
(* adapter; the vendor's HTTP responses and stream lines are inputs.       *)
(***************************************************************************)
EXTENDS Integers, Sequences, FiniteSets, TLC

\* ---------------------------------------------------------------- bounds
\* Total number of stream lines the vendor delivers during one chat() call.
MaxLines == 4

\* ------------------------------------------------------ program constants
MAX_RETRIES == 3
RETRY_BACKOFF == <<2, 5, 10>>
RETRYABLE_STATUS == {429, 500, 502, 503, 529}

Adapters == {"anthropic", "openai", "ollama"}

\* ------------------------------------------------------------ vendor side
\* HTTP responses the vendor may give: status and the error message of the
\* body (resp.text / error.message).
Responses ==
  { [status |-> 200, message |-> ""],
    [status |-> 401, message |-> "unauthorized"],
    [status |-> 404, message |-> "not found"],
    [status |-> 429, message |-> "rate limited"],
    [status |-> 529, message |-> "overloaded"] }

\* requests.Response.ok
RespOk(r) == r.status < 400

\* ------------------------------------------------------------ exceptions
NoExc == [exc |-> "none", what |-> "", status |-> 0, message |-> ""]
RuntimeError(what, status, message) ==
  [exc |-> "RuntimeError", what |-> what, status |-> status, message |-> message]
RetryableError(status, message) ==
  [exc |-> "_RetryableError", what |-> "retryable", status |-> status, message |-> message]
HTTPError(status) ==
  [exc |-> "HTTPError", what |-> "raise_for_status", status |-> status, message |-> ""]
JSONDecodeError ==
  [exc |-> "JSONDecodeError", what |-> "json.loads", status |-> 0, message |-> ""]

\* ------------------------------------------------------------- JSON text
\* Text is modelled as a sequence of lexical tokens; string concatenation
\* (+=) is sequence concatenation.
JsonKeys == {"a", "b", "code"}
JsonVals == {"1", "2"}
EmptyMapping == {}

\* json.loads restricted to objects: {"k":v,...}.  ok = FALSE stands for
\* json.JSONDecodeError; value is the mapping as a set of <<key, value>>
\* pairs, a later duplicate key overriding an earlier one.
JsonLoads(s) ==
  LET n    == Len(s)
      body == IF n >= 2 THEN SubSeq(s, 2, n - 1) ELSE <<>>
      m    == Len(body)
      cnt  == (m + 1) \div 4
      wellformed ==
        /\ n >= 2 /\ s[1] = "{" /\ s[n] = "}"
        /\ \/ m = 0
           \/ /\ (m + 1) % 4 = 0
              /\ \A k \in 0..(cnt - 1) :
                   /\ body[4 * k + 1] \in JsonKeys
                   /\ body[4 * k + 2] = ":"
                   /\ body[4 * k + 3] \in JsonVals
                   /\ (4 * k + 4 <= m => body[4 * k + 4] = ",")
      pairs ==
        IF m = 0 THEN {}
        ELSE { <<body[4 * k + 1], body[4 * k + 3]>> : k \in
                 { j \in 0..(cnt - 1) :
                     \A l \in (j + 1)..(cnt - 1) : body[4 * l + 1] # body[4 * j + 1] } }
  IN IF wellformed THEN [ok |-> TRUE, value |-> pairs]
     ELSE [ok |-> FALSE, value |-> EmptyMapping]

\* Argument fragments a vendor may stream: Frag1 \o Frag2 is one object.
Frag1 == <<"{", "a", ":", "1">>
Frag2 == <<",", "b", ":", "2", "}">>
Fragments == {Frag1, Frag2}

\* ------------------------------------------------------- canonical chunk
Chunk(content, tool_calls, done, prompt_eval_count, eval_count) ==
  [content |-> content, tool_calls |-> tool_calls, done |-> done,
   prompt_eval_count |-> prompt_eval_count, eval_count |-> eval_count]

ToolCall(id, name, arguments) ==
  [id |-> id, name |-> name, arguments |-> arguments]

\* ------------------------------------------- Anthropic: error classifier
\* Variant: the raise_retryable flag is ignored, a transient status always
\* raises the internal retryable error.
AnthropicCheckError_AlwaysRetryable(resp, raise_retryable) ==
  IF RespOk(resp) THEN NoExc
  ELSE IF resp.status = 401 THEN RuntimeError("invalid_api_key", 401, "")
  ELSE IF resp.status \in RETRYABLE_STATUS
       THEN RetryableError(resp.status, resp.message)
  ELSE RuntimeError("api_error", resp.status, resp.message)

\* Variant: 401 is not singled out and is classified with the retryable
\* statuses.
AnthropicCheckError_401Retryable(resp, raise_retryable) ==
  IF RespOk(resp) THEN NoExc
  ELSE IF resp.status \in RETRYABLE_STATUS \cup {401} /\ raise_retryable
       THEN RetryableError(resp.status, resp.message)
  ELSE RuntimeError("api_error", resp.status, resp.message)

\* _check_error: NoExc when the response is accepted, else the exception.
AnthropicCheckError(resp, raise_retryable) ==
  IF RespOk(resp) THEN NoExc
  ELSE IF resp.status = 401 THEN RuntimeError("invalid_api_key", 401, "")
  ELSE IF resp.status \in RETRYABLE_STATUS /\ raise_retryable
       THEN RetryableError(resp.status, resp.message)
  ELSE RuntimeError("api_error", resp.status, resp.message)

\* _RETRY_BACKOFF[min(attempt, len(_RETRY_BACKOFF) - 1)], 0-based index.
Min(a, b) == IF a < b THEN a ELSE b
\* Variant: the schedule is indexed one entry too far.
BackoffWait_Shifted(n) == RETRY_BACKOFF[Min(n + 1, Len(RETRY_BACKOFF) - 1) + 1]
BackoffWait(n) == RETRY_BACKOFF[Min(n, Len(RETRY_BACKOFF) - 1) + 1]

\* ------------------------------------------- Anthropic: stream decoding
\* One line of the response stream as the decoder sees it.
ALine(type, name, id, text, n) ==
  [type |-> type, name |-> name, id |-> id, text |-> text, n |-> n]

AnthropicLines ==
  { ALine("badjson", "", "", <<>>, 0),    \* data: <not JSON>; an empty line or one
                                          \* without "data: " is skipped the same way
    ALine("[DONE]", "", "", <<>>, 0),
    ALine("error", "overloaded_error", "", <<>>, 0),
    ALine("error", "invalid_request_error", "", <<>>, 0),
    ALine("message_start", "", "", <<>>, 7),
    ALine("content_block_start", "send_code", "t1", <<"tool_use">>, 0),
    ALine("text_delta", "", "", <<"hi">>, 0),
    ALine("content_block_stop", "", "", <<>>, 0),
    ALine("message_delta", "", "", <<>>, 3),
    ALine("message_stop", "", "", <<>>, 0) }
  \cup { ALine("input_json_delta", "", "", f, 0) : f \in Fragments }

\* The initial values of the locals of _stream.
AnthropicFresh ==
  [input_tokens |-> 0, output_tokens |-> 0,
   current_tool_name |-> "", current_tool_id |-> "", tool_json_buf |-> <<>>]

\* Variant: the retry keeps the locals of the failed stream.
AnthropicStreamLocals_Kept(prev) == prev

\* Variant: the retry keeps the usage counters of the failed stream.
AnthropicStreamLocals_KeptUsage(prev) ==
  [AnthropicFresh EXCEPT !.input_tokens = prev.input_tokens,
                         !.output_tokens = prev.output_tokens]

\* The locals of a new invocation of _stream.  prev are the locals of the
\* invocation that is retrying (of the construction state for the first
\* one): a recursive invocation has its own locals and takes nothing over.
AnthropicStreamLocals(prev) == AnthropicFresh

\* Variant: a parse failure keeps the raw text under a key instead of
\* substituting the empty mapping.
ToolArgs_KeepRaw(buf) ==
  IF buf # <<>>
  THEN (IF JsonLoads(buf).ok THEN JsonLoads(buf).value ELSE {<<"raw", "text">>})
  ELSE EmptyMapping

\* try: args = json.loads(buf) if buf else {}
\* except json.JSONDecodeError: args = {}
ToolArgs(buf) ==
  IF buf # <<>> THEN JsonLoads(buf).value ELSE EmptyMapping

\* Variant: the end of a block leaves the tool name set.
BlockStopLocals_KeepName(d) == [d EXCEPT !.tool_json_buf = <<>>]

\* The resets at the end of a tool_use block (current_tool_name = None,
\* tool_json_buf = "").
BlockStopLocals(d) == [d EXCEPT !.current_tool_name = "", !.tool_json_buf = <<>>]

\* One iteration of the for-loop of _stream on line e with locals d:
\* the new locals, the chunks yielded, and how the iteration leaves
\* ("next", "break" or "raise" with the exception).
AnthropicStep(d, e) ==
  LET same(ctl, ex) == [dec |-> d, out |-> <<>>, ctl |-> ctl, exc |-> ex]
      upd(d2, out)  == [dec |-> d2, out |-> out, ctl |-> "next", exc |-> NoExc]
  IN
  CASE e.type \in {"blank", "badjson"} -> same("next", NoExc)
    [] e.type = "[DONE]" -> same("break", NoExc)
    [] e.type = "error" ->
         IF e.name \in {"overloaded_error", "api_error"}
         THEN same("raise", RetryableError(529, e.name))
         ELSE same("raise", RuntimeError("stream_error", 0, e.name))
    [] e.type = "message_start" -> upd([d EXCEPT !.input_tokens = e.n], <<>>)
    [] e.type = "content_block_start" ->
         IF e.text = <<"tool_use">>
         THEN upd([d EXCEPT !.current_tool_name = e.name,
                            !.current_tool_id = e.id,
                            !.tool_json_buf = <<>>], <<>>)
         ELSE upd(d, <<>>)
    [] e.type = "text_delta" -> upd(d, << Chunk(e.text, <<>>, FALSE, 0, 0) >>)
    [] e.type = "input_json_delta" ->
         upd([d EXCEPT !.tool_json_buf = d.tool_json_buf \o e.text], <<>>)
    [] e.type = "content_block_stop" ->
         IF d.current_tool_name # ""
         THEN LET args == ToolArgs(d.tool_json_buf)
              IN upd(BlockStopLocals(d),
                     << Chunk(<<>>, << ToolCall(d.current_tool_id, d.current_tool_name, args) >>,
                              FALSE, 0, 0) >>)
         ELSE upd(d, <<>>)
    [] e.type = "message_delta" -> upd([d EXCEPT !.output_tokens = e.n], <<>>)
    [] e.type = "message_stop" ->
         upd(d, << Chunk(<<>>, <<>>, TRUE, d.input_tokens, d.output_tokens) >>)
    [] OTHER -> same("next", NoExc)

\* The for-loop of _stream run over the lines es alone, starting from locals
\* d: the chunks it yields (the loop stops at a break or a raise).
RECURSIVE AnthropicRun(_, _)
AnthropicRun(d, es) ==
  IF es = <<>> THEN <<>>
  ELSE LET r == AnthropicStep(d, Head(es))
       IN r.out \o (IF r.ctl = "next" THEN AnthropicRun(r.dec, Tail(es)) ELSE <<>>)

\* The locals of _stream after the lines es, starting from locals d.
RECURSIVE AnthropicLocalsAfter(_, _)
AnthropicLocalsAfter(d, es) ==
  IF es = <<>> THEN d
  ELSE LET r == AnthropicStep(d, Head(es))
       IN IF r.ctl = "next" THEN AnthropicLocalsAfter(r.dec, Tail(es)) ELSE r.dec

\* Variant: the except clause of _stream does not match the retryable error.
StreamCatches_Nothing(e) == FALSE

\* except _RetryableError in _stream.
StreamCatches(e) == e.exc = "_RetryableError"

\* ----------------------------------------------- OpenAI: error classifier
\* Variant: only the credential check is made.
OpenAICheckError_Only401(resp) ==
  IF resp.status = 401 THEN RuntimeError("invalid_api_key", 401, "")
  ELSE NoExc

\* _check_error of the OpenAI-compatible adapter (no retry anywhere).
OpenAICheckError(resp) ==
  IF resp.status = 401 THEN RuntimeError("invalid_api_key", 401, "")
  ELSE IF resp.status = 429 THEN RuntimeError("rate_limit", 429, "")
  ELSE IF ~RespOk(resp) THEN RuntimeError("api_error", resp.status, resp.message)
  ELSE NoExc

\* ---------------------------------------------- OpenAI: stream decoding
TcDelta(index, id, name, arguments) ==
  [index |-> index, id |-> id, name |-> name, arguments |-> arguments]

\* usage: <<>> (absent) or <<prompt_tokens, completion_tokens>>;
\* choice: whether choices is non-empty; finish: finish_reason or "".
OLine(type, usage, choice, content, tool_calls, finish) ==
  [type |-> type, usage |-> usage, choice |-> choice, content |-> content,
   tool_calls |-> tool_calls, finish |-> finish]

OpenAILines ==
  { OLine("badjson", <<>>, FALSE, <<>>, <<>>, ""),
    OLine("[DONE]", <<>>, FALSE, <<>>, <<>>, ""),
    OLine("chunk", <<>>, TRUE, <<"hi">>, <<>>, ""),
    OLine("chunk", <<>>, TRUE, <<>>, << TcDelta(0, "t1", "send_code", Frag1) >>, ""),
    OLine("chunk", <<>>, TRUE, <<>>, << TcDelta(0, "", "", Frag2) >>, ""),
    OLine("chunk", <<>>, TRUE, <<>>, << TcDelta(1, "t2", "silence", <<>>) >>, ""),
    OLine("chunk", <<>>, TRUE, <<>>, <<>>, "stop"),
    OLine("chunk", <<7, 3>>, FALSE, <<>>, <<>>, "") }

OpenAIFresh ==
  [input_tokens |-> 0, output_tokens |-> 0, tool_calls_buf |-> <<>>]

\* Variant: the argument fragment goes to the buffer of the lowest index.
ApplyTcDelta_FirstBuffer(buf, tc) ==
  LET idx  == tc.index
      b0   == IF idx \in DOMAIN buf THEN buf
              ELSE (idx :> [id |-> tc.id, name |-> "", arguments |-> <<>>]) @@ buf
      b1   == IF tc.name # "" THEN [b0 EXCEPT ![idx].name = tc.name] ELSE b0
      low  == CHOOSE x \in DOMAIN b1 : \A y \in DOMAIN b1 : x <= y
  IN IF tc.arguments # <<>>
     THEN [b1 EXCEPT ![low].arguments = b1[low].arguments \o tc.arguments]
     ELSE b1

\* The body of the loop over delta["tool_calls"]: the buffer of the delta's
\* index is created on its first delta and takes its name and fragment.
ApplyTcDelta(buf, tc) ==
  LET idx  == tc.index
      b0   == IF idx \in DOMAIN buf THEN buf
              ELSE (idx :> [id |-> tc.id, name |-> "", arguments |-> <<>>]) @@ buf
      b1   == IF tc.name # "" THEN [b0 EXCEPT ![idx].name = tc.name] ELSE b0
  IN IF tc.arguments # <<>>
     THEN [b1 EXCEPT ![idx].arguments = b1[idx].arguments \o tc.arguments]
     ELSE b1

\* The loop over delta["tool_calls"]: buffer per index.
RECURSIVE ApplyTcDeltas(_, _)
ApplyTcDeltas(buf, tcs) ==
  IF tcs = <<>> THEN buf
  ELSE ApplyTcDeltas(ApplyTcDelta(buf, Head(tcs)), Tail(tcs))

\* sorted(tool_calls_buf.items()) turned into the list of tool calls.
RECURSIVE SortedToolCalls(_)
SortedToolCalls(buf) ==
  IF DOMAIN buf = {} THEN <<>>
  ELSE LET i == CHOOSE x \in DOMAIN buf : \A y \in DOMAIN buf : x <= y
           b == buf[i]
           args == ToolArgs(b.arguments)
           rest == [j \in DOMAIN buf \ {i} |-> buf[j]]
       IN << ToolCall(b.id, b.name, args) >> \o SortedToolCalls(rest)

\* One iteration of the for-loop of OpenAIProvider._stream.
OpenAIStep(d, e) ==
  LET same(ctl) == [dec |-> d, out |-> <<>>, ctl |-> ctl, exc |-> NoExc]
  IN
  IF e.type \in {"blank", "badjson"} THEN same("next")
  ELSE IF e.type = "[DONE]" THEN same("break")
  ELSE
    LET d1 == IF e.usage # <<>>
              THEN [d EXCEPT !.input_tokens = e.usage[1], !.output_tokens = e.usage[2]]
              ELSE d
    IN
    IF ~e.choice THEN [dec |-> d1, out |-> <<>>, ctl |-> "next", exc |-> NoExc]
    ELSE
      LET out1 == IF e.content # <<>>
                  THEN << Chunk(e.content, <<>>, FALSE, 0, 0) >> ELSE <<>>
          buf  == ApplyTcDeltas(d1.tool_calls_buf, e.tool_calls)
          out2 == IF e.finish # "" /\ DOMAIN buf # {}
                  THEN << Chunk(<<>>, SortedToolCalls(buf), FALSE, 0, 0) >> ELSE <<>>
          out3 == IF e.finish # ""
                  THEN << Chunk(<<>>, <<>>, TRUE, d1.input_tokens, d1.output_tokens) >>
                  ELSE <<>>
          buf2 == IF e.finish # "" /\ DOMAIN buf # {} THEN <<>> ELSE buf
      IN [dec |-> [d1 EXCEPT !.tool_calls_buf = buf2],
          out |-> out1 \o out2 \o out3, ctl |-> "next", exc |-> NoExc]

\* ------------------------------------------------- blocking responses
\* Anthropic response body: content blocks and usage.
TextBlock(text) == [type |-> "text", text |-> text]
ToolUseBlock(id, name, input) ==
  [type |-> "tool_use", id |-> id, name |-> name, input |-> input]
ABody(content, usage) == [content |-> content, usage |-> usage]

AnthropicBodies ==
  { ABody(<< TextBlock(<<"hi">>) >>, <<7, 3>>),
    ABody(<< TextBlock(<<"hi">>),
             ToolUseBlock("t1", "send_code", {<<"a", "1">>, <<"b", "2">>}),
             TextBlock(<<"hi">>),
             ToolUseBlock("t2", "silence", EmptyMapping) >>, <<>>) }

\* "\n".join(content_parts) and the tool_calls list built by the loop of
\* _normalize_response over the content blocks.
RECURSIVE JoinTextBlocks(_, _)
JoinTextBlocks(blocks, first) ==
  IF blocks = <<>> THEN <<>>
  ELSE IF Head(blocks).type = "text"
       THEN (IF first THEN <<>> ELSE <<"\n">>) \o Head(blocks).text
            \o JoinTextBlocks(Tail(blocks), FALSE)
       ELSE JoinTextBlocks(Tail(blocks), first)

RECURSIVE ToolUseBlocks(_)
ToolUseBlocks(blocks) ==
  IF blocks = <<>> THEN <<>>
  ELSE (IF Head(blocks).type = "tool_use"
        THEN << ToolCall(Head(blocks).id, Head(blocks).name, Head(blocks).input) >>
        ELSE <<>>) \o ToolUseBlocks(Tail(blocks))

\* AnthropicProvider._normalize_response.
AnthropicNormalizeResponse(data) ==
  Chunk(JoinTextBlocks(data.content, TRUE), ToolUseBlocks(data.content), TRUE,
        IF data.usage # <<>> THEN data.usage[1] ELSE 0,
        IF data.usage # <<>> THEN data.usage[2] ELSE 0)

\* OpenAI response body: the message of choices[0] and usage; the arguments
\* of a tool call are JSON text.
FunctionCall(id, name, arguments) ==
  [id |-> id, type |-> "function",
   function |-> [name |-> name, arguments |-> arguments]]
OBody(content, tool_calls, usage) ==
  [message |-> [content |-> content, tool_calls |-> tool_calls], usage |-> usage]

OpenAIBodies ==
  { OBody(<<"hi">>, <<>>, <<7, 3>>),
    OBody(<<>>, << FunctionCall("t1", "send_code", Frag1 \o Frag2),
                   FunctionCall("t2", "silence", Frag1),
                   FunctionCall("t3", "silence", <<"{", "}">>) >>, <<>>) }

\* The body of the loop over msg["tool_calls"] in _normalize_response:
\* json.loads of the arguments text, {} on json.JSONDecodeError.
OpenAINormalizeToolCall(tc) ==
  << ToolCall(tc.id, tc.function.name,
              IF JsonLoads(tc.function.arguments).ok
              THEN JsonLoads(tc.function.arguments).value
              ELSE EmptyMapping) >>

RECURSIVE OpenAINormalizeToolCalls(_)
OpenAINormalizeToolCalls(tcs) ==
  IF tcs = <<>> THEN <<>>
  ELSE OpenAINormalizeToolCall(Head(tcs)) \o OpenAINormalizeToolCalls(Tail(tcs))

\* OpenAIProvider._normalize_response.
OpenAINormalizeResponse(data) ==
  Chunk(data.message.content, OpenAINormalizeToolCalls(data.message.tool_calls), TRUE,
        IF data.usage # <<>> THEN data.usage[1] ELSE 0,
        IF data.usage # <<>> THEN data.usage[2] ELSE 0)

\* Ollama response body: already the canonical record (resp.json()).
OllamaBodies == { Chunk(<<"hi">>, <<>>, TRUE, 7, 3) }

\* ------------------------------------------------------ Ollama adapter
\* _check_404 followed by resp.raise_for_status().
OllamaCheckError(resp) ==
  IF resp.status = 404 THEN RuntimeError("model_not_found", 404, "")
  ELSE IF resp.status >= 400 /\ resp.status < 600 THEN HTTPError(resp.status)
  ELSE NoExc

\* Lines of the local-model stream: the vendor's JSON objects already have
\* the canonical shape and are passed through.
LLine(type, chunk) == [type |-> type, chunk |-> chunk]

OllamaLines ==
  { LLine("blank", Chunk(<<>>, <<>>, FALSE, 0, 0)),
    LLine("badjson", Chunk(<<>>, <<>>, FALSE, 0, 0)),
    LLine("json", Chunk(<<"hi">>, <<>>, FALSE, 0, 0)),
    LLine("json", Chunk(<<>>, << ToolCall("", "send_code", EmptyMapping) >>, FALSE, 0, 0)),
    LLine("json", Chunk(<<>>, <<>>, TRUE, 7, 3)) }

OllamaFresh == [input_tokens |-> 0, output_tokens |-> 0]

\* One iteration of "for line in resp.iter_lines(): if line: yield json.loads(line)".
OllamaStep(d, e) ==
  IF e.type = "blank" THEN [dec |-> d, out |-> <<>>, ctl |-> "next", exc |-> NoExc]
  ELSE IF e.type = "badjson"
       THEN [dec |-> d, out |-> <<>>, ctl |-> "raise", exc |-> JSONDecodeError]
  ELSE [dec |-> d, out |-> << e.chunk >>, ctl |-> "next", exc |-> NoExc]

\* ================================================================= state
VARIABLES
  adapter,       \* which provider the factory built
  stream,        \* the stream argument of chat()
  pc,            \* position of the call: idle, post, sleep_connect, iter,
                 \* sleep_stream, returned, raised
  attempt,       \* loop variable of _blocking / _connect_stream
  retries_left,  \* parameter _retries_left of the running _stream
  requests,      \* number of requests.post calls made by this chat() call
  responses,     \* responses received by the request loop of the call (of the
                 \* current _connect_stream), until its response stream is read
  waits,         \* the time.sleep durations of this chat() call, in order
  outcome,       \* exception that reached the caller (NoExc if none)
  dec,           \* locals of the running stream decoder
  yielded,       \* chunks delivered to the consumer so far
  streams,       \* per response opened by this call, what was read from it: the
                 \* lines of a stream, the whole body of a blocking response
  lines          \* number of stream lines read in this chat() call

\* The variables of one chat() call.
chatVars == <<adapter, stream, pc, attempt, retries_left, requests, responses,
              waits, outcome, dec, yielded, streams, lines>>

\* The state of the session that drives the adapter: the conversation
\* history, the dispatcher, and the position of the user turn in progress.
VARIABLES
  history,        \* llm.history: the canonical messages kept across turns
  messages,       \* the working message list of the turn in progress
  tpc,            \* position of the turn: idle, model, dispatch, finish, done,
                  \* aborted (trimmed: right after a trim_history)
  round,          \* loop variable _round of the tool-orchestration loop
  tool_calls,     \* the tool calls collected in the current round
  ti,             \* number of tool calls of the round dispatched so far
  full_content,   \* the content accumulated over the rounds of the turn
  last_code_sent, \* dispatcher.last_code_sent ("" for None)
  piece,          \* the persisted piece of PieceState ("" when there is none)
  live,           \* the code playing at the playground ("" when silent)
  turn_error,     \* exception that ended the turn (NoExc if none)
  turns,          \* number of user turns started
  rounds,         \* per model call of the turn that returned: its content and
                  \* tool calls
  results,        \* the dispatcher results of the turn, in dispatch order
  hbase,          \* length of the history when the turn's loop started
  mbase,          \* length of the working list when the turn's loop started
  calls,          \* number of model calls made in the session
  payload         \* the vendor-format messages of the last model call

turnVars == <<history, messages, tpc, round, tool_calls, ti, full_content,
              last_code_sent, piece, live, turn_error, turns, rounds, results,
              hbase, mbase, calls, payload>>

\* The provider object beyond one call, and the web application: the
\* active model and the tool-capability probe of the provider, the response
\* streams closed so far, and the conversations of the web clients.
VARIABLES
  model,          \* llm.model
  supports,       \* llm._supports_tools: <<>> for None, else << value >>
  plog,           \* set_model calls, capability queries and supports_tools
                  \* returns of the provider, in order
  closed,         \* the response streams (by position in streams) on which
                  \* close() was called
  wpc,            \* per web client, the position of its handler
  wmessages,      \* per web client, the working message list of its turn
  sent            \* per web client, the model calls made for it: the model
                  \* id and the message list of each

appVars == <<model, supports, plog, closed, wpc, wmessages, sent>>

\* The orchestration loop that runs a session, the inputs a session is fed,
\* and what is observed of it.
VARIABLES
  loop,           \* the implementation of the loop that runs the session:
                  \* "cli", "ws" (web socket) or "chat" (POST /api/chat)
  inputs,         \* what the session is fed: the model output of each round
                  \* to come, and whether the playground answers, per turn
  code_sent,      \* the local code_sent of a web handler ("" for None)
  contacts,       \* the requests made to the playground, in order
  outcomes        \* per loop, what its session did: per turn, the messages
                  \* appended to the history, whether the turn completed and
                  \* the code it reported

loopVars == <<loop, inputs, code_sent, contacts, outcomes>>

vars == <<chatVars, turnVars, appVars, loopVars>>

Loops == {"cli", "ws", "chat"}

LoopIdle ==
  /\ loop = "cli"
  /\ inputs = [script |-> <<>>, ups |-> <<>>]
  /\ code_sent = ""
  /\ contacts = <<>>
  /\ outcomes = [l \in Loops |-> <<>>]

Clients == {"c1", "c2"}
Models == {"m1", "m2"}

\* The provider and the web application after construction.
AppIdle ==
  /\ model = "m1"
  /\ supports = <<>>
  /\ plog = <<>>
  /\ closed = {}
  /\ wpc = [c \in Clients |-> "idle"]
  /\ wmessages = [c \in Clients |-> <<>>]
  /\ sent = [c \in Clients |-> <<>>]

\* The session after construction, before any user turn.
TurnIdle ==
  /\ history = <<>>
  /\ messages = <<>>
  /\ tpc = "idle"
  /\ round = 0
  /\ tool_calls = <<>>
  /\ ti = 0
  /\ full_content = <<>>
  /\ last_code_sent = ""
  /\ piece = ""
  /\ live = ""
  /\ turn_error = NoExc
  /\ turns = 0
  /\ rounds = <<>>
  /\ results = <<>>
  /\ hbase = 0
  /\ mbase = 0
  /\ calls = 0
  /\ payload = [system |-> <<>>, messages |-> <<>>]

Init ==
  /\ adapter \in Adapters
  /\ stream \in BOOLEAN
  /\ pc = "idle"
  /\ attempt = 0
  /\ retries_left = MAX_RETRIES
  /\ requests = 0
  /\ responses = <<>>
  /\ waits = <<>>
  /\ outcome = NoExc
  /\ dec = AnthropicFresh
  /\ yielded = <<>>
  /\ streams = <<>>
  /\ lines = 0
  /\ TurnIdle
  /\ AppIdle
  /\ LoopIdle

\* chat(messages, tools, stream): builds the payload and enters _blocking
\* or _stream (range(_MAX_RETRIES) starts at 0, _retries_left at its default).
Chat ==
  /\ pc = "idle"
  /\ pc' = "post"
  /\ attempt' = 0
  /\ retries_left' = MAX_RETRIES
  /\ UNCHANGED <<adapter, stream, requests, responses, waits, outcome, dec,
                 yielded, streams, lines>>
  /\ UNCHANGED turnVars
  /\ UNCHANGED appVars
  /\ UNCHANGED loopVars

\* The exception ex reaches the caller of chat().
Raise(ex) ==
  /\ pc' = "raised"
  /\ outcome' = ex

\* ------------------------------------------------------------ Anthropic
\* One pass of the loop body of _blocking / _connect_stream: the request,
\* _check_error, and either the return or the except clause up to the sleep.
\* The vendor answers the request with r.
AnthropicRequest(r) ==
  /\ adapter = "anthropic"
  /\ pc = "post"
  /\ LET ex == AnthropicCheckError(r, attempt < MAX_RETRIES - 1) IN
       /\ requests' = requests + 1
       /\ responses' = Append(responses, r)
       /\ IF ex = NoExc
          THEN /\ pc' = IF stream THEN "iter" ELSE "returned"
               /\ dec' = AnthropicStreamLocals(dec)
               /\ \E b \in AnthropicBodies :
                    /\ streams' = Append(streams, IF stream THEN <<>> ELSE <<b>>)
                    /\ yielded' = IF stream THEN yielded ELSE << AnthropicNormalizeResponse(b) >>
               /\ UNCHANGED <<waits, outcome>>
          ELSE IF ex.exc = "_RetryableError"
          THEN /\ pc' = "sleep_connect"
               /\ waits' = Append(waits, BackoffWait(attempt))
               /\ UNCHANGED <<outcome, dec, streams, yielded>>
          ELSE /\ Raise(ex)
               /\ UNCHANGED <<waits, dec, streams, yielded>>
  /\ UNCHANGED <<adapter, stream, attempt, retries_left, lines>>
  /\ UNCHANGED turnVars
  /\ UNCHANGED appVars
  /\ UNCHANGED loopVars

AnthropicPost == \E r \in Responses : AnthropicRequest(r)

\* time.sleep returns: next iteration of range(_MAX_RETRIES), or the raise
\* after the loop.
AnthropicWakeConnect ==
  /\ adapter = "anthropic"
  /\ pc = "sleep_connect"
  /\ attempt' = attempt + 1
  /\ IF attempt + 1 < MAX_RETRIES
     THEN pc' = "post" /\ UNCHANGED outcome
     ELSE Raise(RuntimeError("max_retries_exceeded", 0, ""))
  /\ UNCHANGED <<adapter, stream, retries_left, requests, responses, waits,
                 dec, yielded, streams, lines>>
  /\ UNCHANGED turnVars
  /\ UNCHANGED appVars
  /\ UNCHANGED loopVars

StreamCloses_OnReturnOnly(ctl) == ctl = "break"

\* Whether resp.close() has run when a line of the stream has been handled:
\* the except clause closes before it sleeps or raises, the finally clause
\* closes on every exit; the loop going on closes nothing.
StreamCloses(ctl) == ctl # "next"

\* One line of resp.iter_lines() in _stream, including the except clause
\* up to the sleep when the line raises; resp.close() is called in the
\* except clause and in the finally clause that every exit passes.
AnthropicLine ==
  /\ adapter = "anthropic"
  /\ pc = "iter"
  /\ lines < MaxLines
  /\ \E e \in AnthropicLines :
       LET r == AnthropicStep(dec, e) IN
       /\ streams' = [streams EXCEPT ![Len(streams)] = Append(@, e)]
       /\ lines' = lines + 1
       /\ responses' = <<>>
       /\ dec' = r.dec
       /\ yielded' = yielded \o r.out
       /\ closed' = IF StreamCloses(r.ctl) THEN closed \cup {Len(streams)} ELSE closed
       /\ CASE r.ctl = "next" ->
                 UNCHANGED <<pc, outcome, waits>>
            [] r.ctl = "break" ->
                 pc' = "returned" /\ UNCHANGED <<outcome, waits>>
            [] r.ctl = "raise" ->
                 IF StreamCatches(r.exc)
                 THEN IF retries_left <= 0
                      THEN /\ Raise(RuntimeError("max_retries_exceeded", 0, r.exc.message))
                           /\ UNCHANGED waits
                      ELSE /\ pc' = "sleep_stream"
                           /\ waits' = Append(waits, BackoffWait(MAX_RETRIES - retries_left))
                           /\ UNCHANGED outcome
                 ELSE Raise(r.exc) /\ UNCHANGED waits
  /\ UNCHANGED <<adapter, stream, attempt, retries_left, requests>>
  /\ UNCHANGED turnVars
  /\ UNCHANGED <<model, supports, plog, wpc, wmessages, sent>>
  /\ UNCHANGED loopVars

\* resp.iter_lines() is exhausted: the generator returns through the
\* finally clause.
AnthropicEof ==
  /\ adapter = "anthropic"
  /\ pc = "iter"
  /\ pc' = "returned"
  /\ UNCHANGED <<adapter, stream, attempt, retries_left, requests, responses,
                 waits, outcome, dec, yielded, streams, lines>>
  /\ closed' = closed \cup {Len(streams)}
  /\ UNCHANGED turnVars
  /\ UNCHANGED <<model, supports, plog, wpc, wmessages, sent>>
  /\ UNCHANGED loopVars

\* time.sleep returns in the except clause of _stream:
\* yield from self._stream(payload, _retries_left - 1), which starts with
\* _connect_stream.
AnthropicWakeStream ==
  /\ adapter = "anthropic"
  /\ pc = "sleep_stream"
  /\ retries_left' = retries_left - 1
  /\ attempt' = 0
  /\ responses' = <<>>
  /\ pc' = "post"
  /\ UNCHANGED <<adapter, stream, requests, waits, outcome, dec, yielded,
                 streams, lines>>
  /\ UNCHANGED turnVars
  /\ UNCHANGED appVars
  /\ UNCHANGED loopVars

\* --------------------------------------------------------------- OpenAI
\* _blocking / the head of _stream: one request, _check_error.
OpenAIPost ==
  /\ adapter = "openai"
  /\ pc = "post"
  /\ \E r \in Responses :
       LET ex == OpenAICheckError(r) IN
       /\ requests' = requests + 1
       /\ responses' = Append(responses, r)
       /\ IF ex = NoExc
          THEN /\ pc' = IF stream THEN "iter" ELSE "returned"
               /\ dec' = OpenAIFresh
               /\ \E b \in OpenAIBodies :
                    /\ streams' = Append(streams, IF stream THEN <<>> ELSE <<b>>)
                    /\ yielded' = IF stream THEN yielded ELSE << OpenAINormalizeResponse(b) >>
               /\ UNCHANGED outcome
          ELSE /\ Raise(ex)
               /\ UNCHANGED <<dec, streams, yielded>>
  /\ UNCHANGED <<adapter, stream, attempt, retries_left, waits, lines>>
  /\ UNCHANGED turnVars
  /\ UNCHANGED appVars
  /\ UNCHANGED loopVars

OpenAILine ==
  /\ adapter = "openai"
  /\ pc = "iter"
  /\ lines < MaxLines
  /\ \E e \in OpenAILines :
       LET r == OpenAIStep(dec, e) IN
       /\ streams' = [streams EXCEPT ![Len(streams)] = Append(@, e)]
       /\ lines' = lines + 1
       /\ responses' = <<>>
       /\ dec' = r.dec
       /\ yielded' = yielded \o r.out
       /\ pc' = IF r.ctl = "break" THEN "returned" ELSE pc
  /\ UNCHANGED <<adapter, stream, attempt, retries_left, requests,
                 waits, outcome>>
  /\ UNCHANGED turnVars
  /\ UNCHANGED appVars
  /\ UNCHANGED loopVars

OpenAIEof ==
  /\ adapter = "openai"
  /\ pc = "iter"
  /\ pc' = "returned"
  /\ UNCHANGED <<adapter, stream, attempt, retries_left, requests, responses,
                 waits, outcome, dec, yielded, streams, lines>>
  /\ UNCHANGED turnVars
  /\ UNCHANGED appVars
  /\ UNCHANGED loopVars

\* --------------------------------------------------------------- Ollama
OllamaPost ==
  /\ adapter = "ollama"
  /\ pc = "post"
  /\ \E r \in Responses :
       LET ex == OllamaCheckError(r) IN
       /\ requests' = requests + 1
       /\ responses' = Append(responses, r)
       /\ IF ex = NoExc
          THEN /\ pc' = IF stream THEN "iter" ELSE "returned"
               /\ dec' = OllamaFresh
               /\ \E b \in OllamaBodies :
                    /\ streams' = Append(streams, IF stream THEN <<>> ELSE <<b>>)
                    /\ yielded' = IF stream THEN yielded ELSE << b >>
               /\ UNCHANGED outcome
          ELSE /\ Raise(ex)
               /\ UNCHANGED <<dec, streams, yielded>>
  /\ UNCHANGED <<adapter, stream, attempt, retries_left, waits, lines>>
  /\ UNCHANGED turnVars
  /\ UNCHANGED appVars
  /\ UNCHANGED loopVars

OllamaLine ==
  /\ adapter = "ollama"
  /\ pc = "iter"
  /\ lines < MaxLines
  /\ \E e \in OllamaLines :
       LET r == OllamaStep(dec, e) IN
       /\ streams' = [streams EXCEPT ![Len(streams)] = Append(@, e)]
       /\ lines' = lines + 1
       /\ responses' = <<>>
       /\ dec' = r.dec
       /\ yielded' = yielded \o r.out
       /\ IF r.ctl = "raise" THEN Raise(r.exc) ELSE UNCHANGED <<pc, outcome>>
  /\ UNCHANGED <<adapter, stream, attempt, retries_left, requests,
                 waits>>
  /\ UNCHANGED turnVars
  /\ UNCHANGED appVars
  /\ UNCHANGED loopVars

OllamaEof ==
  /\ adapter = "ollama"
  /\ pc = "iter"
  /\ pc' = "returned"
  /\ UNCHANGED <<adapter, stream, attempt, retries_left, requests, responses,
                 waits, outcome, dec, yielded, streams, lines>>
  /\ UNCHANGED turnVars
  /\ UNCHANGED appVars
  /\ UNCHANGED loopVars

Next ==
  \/ Chat
  \/ AnthropicPost
  \/ AnthropicWakeConnect
  \/ AnthropicLine
  \/ AnthropicEof
  \/ AnthropicWakeStream
  \/ OpenAIPost
  \/ OpenAILine
  \/ OpenAIEof
  \/ OllamaPost
  \/ OllamaLine
  \/ OllamaEof

Spec == Init /\ [][Next]_vars

TypeOK ==
  /\ adapter \in Adapters
  /\ stream \in BOOLEAN
  /\ pc \in {"idle", "post", "sleep_connect", "iter", "sleep_stream", "returned", "raised"}
  /\ attempt \in 0..MAX_RETRIES
  /\ requests \in Nat
  /\ lines \in 0..MaxLines

\* The last element of a non-empty sequence.
Last(q) == q[Len(q)]

\* ------------------------------------------------------- cancellation
\* A streaming call whose consumer may stop it: a KeyboardInterrupt while
\* the call runs, or the close of the generator while it is suspended.
CancelInit ==
  /\ adapter \in Adapters
  /\ stream = TRUE
  /\ pc = "idle"
  /\ attempt = 0
  /\ retries_left = MAX_RETRIES
  /\ requests = 0
  /\ responses = <<>>
  /\ waits = <<>>
  /\ outcome = NoExc
  /\ dec = AnthropicFresh
  /\ yielded = <<>>
  /\ streams = <<>>
  /\ lines = 0
  /\ TurnIdle
  /\ AppIdle
  /\ LoopIdle

\* The consumer stops the call while a stream is read or during a backoff
\* sleep.  The exception passes through the frames of the generator: the
\* finally clause of AnthropicProvider._stream closes the response it
\* reads; OpenAIProvider._stream and OllamaProvider._stream have no handler
\* and call close() nowhere; _connect_stream holds no open stream.
Cancel ==
  /\ stream
  /\ pc \in {"iter", "sleep_connect", "sleep_stream"}
  /\ pc' = "cancelled"
  /\ closed' = IF adapter = "anthropic" /\ pc = "iter"
               THEN closed \cup {Len(streams)} ELSE closed
  /\ UNCHANGED <<adapter, stream, attempt, retries_left, requests, responses,
                 waits, outcome, dec, yielded, streams, lines>>
  /\ UNCHANGED turnVars
  /\ UNCHANGED <<model, supports, plog, wpc, wmessages, sent>>
  /\ UNCHANGED loopVars

CancelNext ==
  \/ Next
  \/ Cancel

SpecCancel == CancelInit /\ [][CancelNext]_vars

\* ------------------------------------------------- progress of a stream
\* A streaming call of the Anthropic adapter as one sequential thread: the
\* vendor answers every request, every time.sleep returns, and every
\* response stream delivers its next line or ends (a stream has at most
\* MaxLines lines in all), so a step that can be taken is eventually taken.
LiveInit ==
  /\ Init
  /\ adapter = "anthropic"
  /\ stream

LiveNext ==
  \/ Chat
  \/ AnthropicPost
  \/ AnthropicWakeConnect
  \/ AnthropicLine
  \/ AnthropicEof
  \/ AnthropicWakeStream

SpecLive == LiveInit /\ [][LiveNext]_vars /\ WF_vars(LiveNext)

\* ------------------------------------- Anthropic: content-block streams
\* The decoder of _stream run on streams that follow the vendor's event
\* grammar: content blocks come one after the other, each as a
\* content_block_start, its deltas (text_delta in a text block,
\* input_json_delta in a tool_use block) and a content_block_stop; the
\* message ends with message_stop.
MaxDecodeLines == 7

AnthropicBlockLines ==
  { ALine("content_block_start", "", "", <<"text">>, 0),
    ALine("content_block_start", "send_code", "t1", <<"tool_use">>, 0),
    ALine("content_block_start", "silence", "t2", <<"tool_use">>, 0),
    ALine("text_delta", "", "", <<"hi">>, 0),
    ALine("content_block_stop", "", "", <<>>, 0),
    ALine("message_stop", "", "", <<>>, 0) }
  \cup { ALine("input_json_delta", "", "", f, 0) : f \in Fragments }

\* The kind of content block that is open after the lines ls ("" when none
\* is, "end" after message_stop).
RECURSIVE OpenBlock(_, _)
OpenBlock(ls, open) ==
  IF ls = <<>> THEN open
  ELSE LET e == Head(ls)
           nxt == IF e.type = "content_block_start" THEN e.text[1]
                  ELSE IF e.type = "content_block_stop" THEN ""
                  ELSE IF e.type = "message_stop" THEN "end"
                  ELSE open
       IN OpenBlock(Tail(ls), nxt)

\* The events the vendor may send while a block of kind open is open.
VendorAllows(open, e) ==
  CASE open = ""         -> e.type \in {"content_block_start", "message_stop"}
    [] open = "text"     -> e.type \in {"text_delta", "content_block_stop"}
    [] open = "tool_use" -> e.type \in {"input_json_delta", "content_block_stop"}
    [] OTHER             -> FALSE

\* The state of a streaming call right after _connect_stream returned its
\* first response.
DecodeInit ==
  /\ adapter = "anthropic"
  /\ stream = TRUE
  /\ pc = "iter"
  /\ attempt = 0
  /\ retries_left = MAX_RETRIES
  /\ requests = 1
  /\ responses = <<>>
  /\ waits = <<>>
  /\ outcome = NoExc
  /\ dec = AnthropicStreamLocals(AnthropicFresh)
  /\ yielded = <<>>
  /\ streams = << <<>> >>
  /\ lines = 0
  /\ TurnIdle
  /\ AppIdle
  /\ LoopIdle

\* One line of resp.iter_lines() in _stream, the line being an event the
\* vendor's grammar allows at this point (none of them raises or breaks).
AnthropicBlockLine ==
  /\ pc = "iter"
  /\ lines < MaxDecodeLines
  /\ \E e \in AnthropicBlockLines :
       LET r == AnthropicStep(dec, e) IN
       /\ VendorAllows(OpenBlock(Last(streams), ""), e)
       /\ streams' = [streams EXCEPT ![Len(streams)] = Append(@, e)]
       /\ lines' = lines + 1
       /\ dec' = r.dec
       /\ yielded' = yielded \o r.out
  /\ UNCHANGED <<adapter, stream, pc, attempt, retries_left, requests,
                 responses, waits, outcome>>
  /\ UNCHANGED turnVars
  /\ UNCHANGED appVars
  /\ UNCHANGED loopVars

DecodeNext ==
  \/ AnthropicBlockLine
  \/ AnthropicEof

SpecDecode == DecodeInit /\ [][DecodeNext]_vars

\* -------------------------------------- OpenAI: tool calls in a stream
\* The decoder of OpenAIProvider._stream on streams of tool-call deltas for
\* two indices, content and finish chunks, in any order.
MaxToolLines == 5

OpenAIToolLines ==
  { OLine("chunk", <<>>, TRUE, <<"hi">>, <<>>, ""),
    OLine("chunk", <<>>, TRUE, <<>>, << TcDelta(0, "t1", "send_code", Frag1) >>, ""),
    OLine("chunk", <<>>, TRUE, <<>>, << TcDelta(0, "", "", Frag2) >>, ""),
    OLine("chunk", <<>>, TRUE, <<>>, << TcDelta(1, "t2", "send_code", Frag1) >>, ""),
    OLine("chunk", <<>>, TRUE, <<>>, << TcDelta(1, "", "", Frag2) >>, ""),
    OLine("chunk", <<>>, TRUE, <<>>, <<>>, "tool_calls") }

ToolDecodeInit ==
  /\ adapter = "openai"
  /\ stream = TRUE
  /\ pc = "iter"
  /\ attempt = 0
  /\ retries_left = MAX_RETRIES
  /\ requests = 1
  /\ responses = <<>>
  /\ waits = <<>>
  /\ outcome = NoExc
  /\ dec = OpenAIFresh
  /\ yielded = <<>>
  /\ streams = << <<>> >>
  /\ lines = 0
  /\ TurnIdle
  /\ AppIdle
  /\ LoopIdle

\* One iteration of the for-loop over resp.iter_lines().
OpenAIToolLine ==
  /\ adapter = "openai"
  /\ pc = "iter"
  /\ lines < MaxToolLines
  /\ \E e \in OpenAIToolLines :
       LET r == OpenAIStep(dec, e) IN
       /\ streams' = [streams EXCEPT ![Len(streams)] = Append(@, e)]
       /\ lines' = lines + 1
       /\ dec' = r.dec
       /\ yielded' = yielded \o r.out
  /\ UNCHANGED <<adapter, stream, pc, attempt, retries_left, requests,
                 responses, waits, outcome>>
  /\ UNCHANGED turnVars
  /\ UNCHANGED appVars
  /\ UNCHANGED loopVars

ToolDecodeNext ==
  \/ OpenAIToolLine
  \/ OpenAIEof

SpecToolDecode == ToolDecodeInit /\ [][ToolDecodeNext]_vars

\* ------------------------------------------ Ollama: capability probe
\* The Ollama provider under supports_tools and set_model calls in any
\* order, against a server whose /api/show may answer anything.
MaxProbeOps == 5

\* The outcome of the POST to /api/show: a RequestException, or a status
\* with, for 200, whether the template mentions "tools" and whether the
\* model_info mentions "tool".
ShowAnswer(exc, status, template, model_info) ==
  [exc |-> exc, status |-> status, template |-> template, model_info |-> model_info]

ShowAnswers ==
  { ShowAnswer(TRUE, 0, FALSE, FALSE),
    ShowAnswer(FALSE, 404, FALSE, FALSE),
    ShowAnswer(FALSE, 200, FALSE, FALSE),
    ShowAnswer(FALSE, 200, TRUE, FALSE),
    ShowAnswer(FALSE, 200, FALSE, TRUE) }

\* The value supports_tools stores for the outcome ans of its query.
ProbeValue(ans) ==
  IF ans.exc THEN FALSE
  ELSE IF ans.status = 200 THEN ans.template \/ ans.model_info
  ELSE FALSE

\* Variant: only a cached True is taken from the cache.
ProbeCached_OnlyTrue(c) == c = << TRUE >>

\* "self._supports_tools is not None"
ProbeCached(c) == c # <<>>

\* The entries of plog.
ProbeEvent(op, name, answer, value) ==
  [op |-> op, model |-> name, answer |-> answer, value |-> value]

ProbeInit ==
  /\ adapter = "ollama"
  /\ stream = TRUE
  /\ pc = "idle"
  /\ attempt = 0
  /\ retries_left = MAX_RETRIES
  /\ requests = 0
  /\ responses = <<>>
  /\ waits = <<>>
  /\ outcome = NoExc
  /\ dec = AnthropicFresh
  /\ yielded = <<>>
  /\ streams = <<>>
  /\ lines = 0
  /\ TurnIdle
  /\ AppIdle
  /\ LoopIdle

\* supports_tools(): the cached value, or a query for the active model whose
\* result is cached and returned.
SupportsTools ==
  /\ Len(plog) < MaxProbeOps
  /\ IF ProbeCached(supports)
     THEN /\ plog' = Append(plog, ProbeEvent("return", model, ShowAnswer(FALSE, 0, FALSE, FALSE),
                                             supports[1]))
          /\ UNCHANGED supports
     ELSE \E ans \in ShowAnswers :
            /\ supports' = << ProbeValue(ans) >>
            /\ plog' = plog \o << ProbeEvent("query", model, ans, FALSE),
                                  ProbeEvent("return", model, ShowAnswer(FALSE, 0, FALSE, FALSE),
                                             ProbeValue(ans)) >>
  /\ UNCHANGED <<model, closed, wpc, wmessages, sent>>
  /\ UNCHANGED chatVars
  /\ UNCHANGED turnVars
  /\ UNCHANGED loopVars

\* set_model(name)
SetModel ==
  /\ Len(plog) < MaxProbeOps
  /\ \E name \in Models :
       /\ model' = name
       /\ plog' = Append(plog, ProbeEvent("set_model", name, ShowAnswer(FALSE, 0, FALSE, FALSE),
                                          FALSE))
  /\ supports' = <<>>
  /\ UNCHANGED <<closed, wpc, wmessages, sent>>
  /\ UNCHANGED chatVars
  /\ UNCHANGED turnVars
  /\ UNCHANGED loopVars

ProbeNext ==
  \/ SupportsTools
  \/ SetModel

SpecProbe == ProbeInit /\ [][ProbeNext]_vars

\* ----------------------------------------------- session: pure parts
\* Text at this level is a sequence of symbols (words); len() of a text is
\* the number of its symbols; the symbol "<fence>" is a code fence line.
MaxTurns == 2
MaxCalls == 6
TrimBudget == 1
MAX_TOOL_ROUNDS == 5

RequestException ==
  [exc |-> "RequestException", what |-> "playground", status |-> 0, message |-> ""]

\* dict.get(key, default).
Get(m, key, default) == IF key \in DOMAIN m THEN m[key] ELSE default

\* The canonical messages built by add_message, add_tool_call and
\* add_tool_result (and by the literals of the orchestration loop).
Message(role, content) == [role |-> role, content |-> content]
ToolCallMessage(tcs) == [role |-> "assistant", tool_calls |-> tcs]

\* Variant: the tool message is stored without the id of its call.
ToolResultMessage_NoId(content, tool_use_id) ==
  [role |-> "tool", content |-> content, tool_use_id |-> ""]

\* add_tool_result, and the tool message literal of the orchestration loop.
ToolResultMessage(content, tool_use_id) ==
  [role |-> "tool", content |-> content, tool_use_id |-> tool_use_id]


\* assistant_msg of the loop: content only when the round produced some.
AssistantMsg(round_content, tcs) ==
  IF round_content # <<>>
  THEN [role |-> "assistant", content |-> round_content, tool_calls |-> tcs]
  ELSE [role |-> "assistant", tool_calls |-> tcs]

\* BaseProvider._estimate_tokens over the history h.
RECURSIVE EstimateTokens(_)
EstimateTokens(h) ==
  IF h = <<>> THEN 0
  ELSE (Len(Get(Head(h), "content", <<>>)) \div 4) + EstimateTokens(Tail(h))

\* Variant: the loop goes on down to an empty history.
TrimGoesOn_ToEmpty(h, max_tokens) ==
  EstimateTokens(h) > max_tokens /\ Len(h) > 0

\* The condition of the while loop of trim_history.
TrimGoesOn(h, max_tokens) ==
  EstimateTokens(h) > max_tokens /\ Len(h) > 1

\* BaseProvider.trim_history: pop(0) while over budget and more than one
\* message is left.
RECURSIVE TrimHistory(_, _)
TrimHistory(h, max_tokens) ==
  IF TrimGoesOn(h, max_tokens)
  THEN TrimHistory(Tail(h), max_tokens)
  ELSE h

\* The tool calls carried by the chunks q, in order (tool_calls.extend).
RECURSIVE ToolCallsOf(_)
ToolCallsOf(q) ==
  IF q = <<>> THEN <<>> ELSE Head(q).tool_calls \o ToolCallsOf(Tail(q))

\* The content of the chunks q, concatenated (round_content += token).
RECURSIVE ContentOf(_)
ContentOf(q) ==
  IF q = <<>> THEN <<>> ELSE Head(q).content \o ContentOf(Tail(q))

\* The chunk sequences one model call of a round may deliver.
Codes == {"1", "2"}

RoundOutputs ==
  { << Chunk(<<"hi">>, <<>>, FALSE, 0, 0), Chunk(<<>>, <<>>, TRUE, 7, 3) >>,
    << Chunk(<<"<fence>", "2", "<fence>">>, <<>>, FALSE, 0, 0), Chunk(<<>>, <<>>, TRUE, 7, 3) >>,
    << Chunk(<<>>, <<>>, TRUE, 7, 3) >>,
    << Chunk(<<>>, << ToolCall("t1", "silence", EmptyMapping) >>, FALSE, 0, 0),
       Chunk(<<>>, <<>>, TRUE, 7, 3) >>,
    << Chunk(<<"hi">>, <<>>, FALSE, 0, 0),
       Chunk(<<>>, << ToolCall("t1", "send_code", {<<"code", "1">>}) >>, FALSE, 0, 0),
       Chunk(<<>>, << ToolCall("t2", "get_current_piece", EmptyMapping) >>, FALSE, 0, 0),
       Chunk(<<>>, <<>>, TRUE, 7, 3) >> }

UserTexts == { <<"play", "a", "slow", "beat">> }

\* args.get(key, "") on an arguments mapping.
ArgGet(args, key) ==
  IF \E p \in args : p[1] = key THEN (CHOOSE p \in args : p[1] = key)[2] ELSE ""

\* MercuryClient.get_current_code: the playing code, "" when the playground
\* is unreachable (up = FALSE) or silent.
GetCurrentCode(up, playing) == IF up THEN playing ELSE ""

\* What one call of the dispatcher, or of the fallback delivery, comes to:
\* the exception raised (NoExc if none) or the result string, the state it
\* leaves, and the requests it made to the playground.
DispatchValue(exc, res, l, p, v, reqs) ==
  [exc |-> exc, result |-> res, last_code_sent |-> l, piece |-> p, live |-> v,
   contacts |-> reqs]

\* Variant: the piece is persisted and the marker set before the delivery.
SendCode_WriteFirst(code, up, d) ==
  IF up
  THEN DispatchValue(NoExc, <<"Code", "sent", "to", "Mercury">>, code, code, code,
                     << "POST /api/code" >>)
  ELSE DispatchValue(RequestException, <<>>, code, code, d.live,
                     << "POST /api/code" >>)

\* The send_code branch of dispatch when there is code: MercuryClient.send_code
\* (which raises when the playground fails), then state.write, then the
\* marker.
SendCode(code, up, d) ==
  IF up
  THEN DispatchValue(NoExc, <<"Code", "sent", "to", "Mercury">>, code, code, code,
                     << "POST /api/code" >>)
  ELSE DispatchValue(RequestException, <<>>, d.last_code_sent, d.piece, d.live,
                     << "POST /api/code" >>)

\* ToolDispatcher.dispatch(tc) with the playground reachable or not (up), on
\* dispatcher state d = [last_code_sent, piece, live]: the exception raised
\* or the result string, the new state, and the playground requests made.
DispatchTool(tc, up, d) ==
  LET same(res, reqs) ==
        DispatchValue(NoExc, res, d.last_code_sent, d.piece, d.live, reqs)
  IN
  CASE tc.name = "send_code" ->
         LET code == ArgGet(tc.arguments, "code") IN
         IF code # ""
         THEN SendCode(code, up, d)
         ELSE same(<<"Error:", "no", "code", "provided.">>, <<>>)
    [] tc.name = "silence" ->
         IF up THEN DispatchValue(NoExc, <<"Silenced.">>, "", "", "",
                                  << "POST /api/silence" >>)
         ELSE DispatchValue(RequestException, <<>>, d.last_code_sent, d.piece,
                            d.live, << "POST /api/silence" >>)
    [] tc.name = "get_current_piece" ->
         LET lv == GetCurrentCode(up, d.live) IN
         IF lv # "" THEN DispatchValue(NoExc, <<lv>>, d.last_code_sent, lv, d.live,
                                       << "GET /api/code" >>)
         ELSE IF d.piece # "" THEN same(<<d.piece>>, << "GET /api/code" >>)
         ELSE same(<<"(No", "piece", "currently", "playing.)">>, << "GET /api/code" >>)
    [] OTHER -> same(<<"Unknown", "tool:", tc.name>>, <<>>)

\* extract_code on the texts of the model: the code of the last fenced
\* block that holds code, "" (None) when there is none.
ExtractCode(text) ==
  LET at == { i \in 1..(Len(text) - 2) :
                text[i] = "<fence>" /\ text[i + 1] \in Codes /\ text[i + 2] = "<fence>" }
  IN IF at = {} THEN ""
     ELSE text[(CHOOSE i \in at : \A j \in at : j <= i) + 1]

\* _build_messages(user_text) with current = get_current_code() or
\* state.read().
BuildMessages(user_text, current, h) ==
  << Message("system", <<"system", "prompt">>) >>
  \o (IF current # ""
      THEN << Message("system", <<"Currently", "playing", "piece:", "<fence>", current, "<fence>">>) >>
      ELSE <<>>)
  \o h
  \o << Message("user", user_text) >>

\* Variant: the loop runs one round more.
MoreRounds_OneMore(r) == r + 1 <= MAX_TOOL_ROUNDS

\* for _round in range(max_tool_rounds): is there an iteration after r.
MoreRounds(r) == r + 1 < MAX_TOOL_ROUNDS

\* Variant: the loop never breaks on a round without tool calls.
LoopBreaks_Never(tcs) == FALSE

\* if not tool_calls: break
LoopBreaks(tcs) == tcs = <<>>

\* ------------------------------------------ request message conversion
\* json.dumps of an arguments mapping.
RECURSIVE JsonDumpsPairs(_)
JsonDumpsPairs(m) ==
  IF m = {} THEN <<>>
  ELSE LET p == CHOOSE x \in m : TRUE
       IN <<p[1], ":", p[2]>>
          \o (IF m \ {p} = {} THEN <<>> ELSE <<",">> \o JsonDumpsPairs(m \ {p}))

\* Variant: the arguments are serialised as the empty object.
JsonDumps_Empty(m) == <<"{", "}">>

JsonDumps(m) == <<"{">> \o JsonDumpsPairs(m) \o <<"}">>

\* The vendor messages AnthropicProvider._convert_messages makes of one
\* canonical message (none for a system message).
AnthropicConvertMessage(msg) ==
  LET role == Get(msg, "role", "user") IN
  IF role = "system" THEN <<>>
  ELSE IF role = "tool"
  THEN << [role |-> "user",
           content |-> << [type |-> "tool_result",
                           tool_use_id |-> Get(msg, "tool_use_id", ""),
                           content |-> Get(msg, "content", <<>>)] >>] >>
  ELSE IF role = "assistant" /\ Get(msg, "tool_calls", <<>>) # <<>>
  THEN << [role |-> "assistant",
           content |->
             (IF Get(msg, "content", <<>>) # <<>>
              THEN << TextBlock(msg.content) >> ELSE <<>>)
             \o [i \in DOMAIN msg.tool_calls |->
                   ToolUseBlock(msg.tool_calls[i].id, msg.tool_calls[i].name,
                                msg.tool_calls[i].arguments)]] >>
  ELSE << [role |-> role, content |-> Get(msg, "content", <<>>)] >>

\* "\n\n".join(system_parts).
RECURSIVE JoinSystemParts(_, _)
JoinSystemParts(msgs, first) ==
  IF msgs = <<>> THEN <<>>
  ELSE IF Get(Head(msgs), "role", "user") = "system"
       THEN (IF first THEN <<>> ELSE <<"\n\n">>) \o Get(Head(msgs), "content", <<>>)
            \o JoinSystemParts(Tail(msgs), FALSE)
       ELSE JoinSystemParts(Tail(msgs), first)

\* The vendor message OpenAIProvider._convert_messages makes of one
\* canonical message.
OpenAIConvertMessage(msg) ==
  LET role == Get(msg, "role", "user") IN
  IF role = "assistant" /\ Get(msg, "tool_calls", <<>>) # <<>>
  THEN LET tc_formatted ==
             [i \in DOMAIN msg.tool_calls |->
                FunctionCall(msg.tool_calls[i].id, msg.tool_calls[i].name,
                             JsonDumps(msg.tool_calls[i].arguments))]
       IN IF Get(msg, "content", <<>>) # <<>>
          THEN << [role |-> "assistant", tool_calls |-> tc_formatted,
                   content |-> msg.content] >>
          ELSE << [role |-> "assistant", tool_calls |-> tc_formatted] >>
  ELSE IF role = "tool"
  THEN << [role |-> "tool", tool_call_id |-> Get(msg, "tool_call_id", ""),
           content |-> Get(msg, "content", <<>>)] >>
  ELSE << [role |-> role, content |-> Get(msg, "content", <<>>)] >>

\* The messages of the request payload that chat() of adapter a builds from
\* the canonical messages msgs (Ollama sends them as they are).
RECURSIVE ConvertEach(_, _)
ConvertEach(a, msgs) ==
  IF msgs = <<>> THEN <<>>
  ELSE (CASE a = "anthropic" -> AnthropicConvertMessage(Head(msgs))
          [] a = "openai"    -> OpenAIConvertMessage(Head(msgs))
          [] OTHER           -> << Head(msgs) >>)
       \o ConvertEach(a, Tail(msgs))

ConvertMessages(a, msgs) ==
  [system |-> IF a = "anthropic" THEN JoinSystemParts(msgs, TRUE) ELSE <<>>,
   messages |-> ConvertEach(a, msgs)]

\* ---------------------------------------------------- session: user turn
\* One CLI session: run_async trims the history and runs
\* _handle_streaming_response for each user input.  The model call of a
\* round is taken as a whole: the chunk sequence it delivers, or its raise.
TurnInit ==
  /\ adapter \in Adapters
  /\ stream = TRUE
  /\ pc = "idle"
  /\ attempt = 0
  /\ retries_left = MAX_RETRIES
  /\ requests = 0
  /\ responses = <<>>
  /\ waits = <<>>
  /\ outcome = NoExc
  /\ dec = AnthropicFresh
  /\ yielded = <<>>
  /\ streams = <<>>
  /\ lines = 0
  /\ TurnIdle
  /\ AppIdle
  /\ LoopIdle

\* trim_history in run_async, then the head of _handle_streaming_response:
\* _build_messages, add_message("user", ...), the reset of last_code_sent.
TurnStart ==
  /\ tpc \in {"idle", "done", "aborted"}
  /\ turns < MaxTurns
  /\ \E user_text \in UserTexts, up \in BOOLEAN :
       LET h0      == TrimHistory(history, TrimBudget)
           lv      == GetCurrentCode(up, live)
           current == IF lv # "" THEN lv ELSE piece
           msgs    == BuildMessages(user_text, current, h0)
       IN /\ messages' = msgs
          /\ history' = Append(h0, Message("user", user_text))
          /\ piece' = IF current # "" THEN current ELSE piece
          /\ mbase' = Len(msgs)
          /\ hbase' = Len(h0) + 1
  /\ last_code_sent' = ""
  /\ tpc' = "model"
  /\ round' = 0
  /\ tool_calls' = <<>>
  /\ ti' = 0
  /\ full_content' = <<>>
  /\ turn_error' = NoExc
  /\ turns' = turns + 1
  /\ rounds' = <<>>
  /\ results' = <<>>
  /\ UNCHANGED <<live, calls, payload>>
  /\ UNCHANGED chatVars
  /\ UNCHANGED appVars
  /\ UNCHANGED loopVars

\* The end of an iteration of the round loop: the next iteration of
\* range(max_tool_rounds), or the code after the loop.
NextRound(r) ==
  IF MoreRounds(r) THEN round' = r + 1 /\ tpc' = "model"
  ELSE round' = r /\ tpc' = "finish"

\* One round up to its dispatch loop: the chunks of llm.chat are collected,
\* full_content grows, and either the loop breaks or the assistant
\* tool-call message is appended to the working list and to the history.
ModelRound ==
  /\ tpc = "model"
  /\ calls < MaxCalls
  /\ calls' = calls + 1
  /\ payload' = ConvertMessages(adapter, messages)
  /\ \E out \in RoundOutputs :
       LET round_content == ContentOf(out)
           tcs == ToolCallsOf(out)
       IN /\ full_content' = full_content \o round_content
          /\ rounds' = Append(rounds, [content |-> round_content, tool_calls |-> tcs])
          /\ tool_calls' = tcs
          /\ ti' = 0
          /\ IF LoopBreaks(tcs)
             THEN /\ tpc' = "finish"
                  /\ UNCHANGED <<messages, history, round>>
             ELSE /\ messages' = Append(messages, AssistantMsg(round_content, tcs))
                  /\ history' = Append(history, ToolCallMessage(tcs))
                  /\ IF tcs # <<>> THEN tpc' = "dispatch" /\ UNCHANGED round
                     ELSE NextRound(round)
  /\ UNCHANGED <<last_code_sent, piece, live, turn_error, turns, results, hbase, mbase>>
  /\ UNCHANGED chatVars
  /\ UNCHANGED appVars
  /\ UNCHANGED loopVars

\* Variant: the handler of the failure drops what the turn has appended.
HistoryAfterFailure_RolledBack(h, base) == SubSeq(h, 1, base - 1)

\* The history once run_async has caught the exception of a turn whose
\* messages start at position base of the history h: the handler prints the
\* error and touches nothing.
HistoryAfterFailure(h, base) == h

\* llm.chat raises a fatal error: the exception leaves
\* _handle_streaming_response and is reported by run_async.
ModelFails ==
  /\ tpc = "model"
  /\ calls < MaxCalls
  /\ calls' = calls + 1
  /\ payload' = ConvertMessages(adapter, messages)
  /\ tpc' = "aborted"
  /\ turn_error' = RuntimeError("chat", 0, "")
  /\ history' = HistoryAfterFailure(history, hbase)
  /\ UNCHANGED <<messages, round, tool_calls, ti, full_content,
                 last_code_sent, piece, live, turns, rounds, results, hbase, mbase>>
  /\ UNCHANGED chatVars
  /\ UNCHANGED appVars
  /\ UNCHANGED loopVars

\* One iteration of "for tc in tool_calls": dispatch, add_tool_result and
\* the append to the working list; a raise of the dispatcher leaves the
\* turn.
DispatchNext ==
  /\ tpc = "dispatch"
  /\ \E up \in BOOLEAN :
       LET tc == tool_calls[ti + 1]
           r  == DispatchTool(tc, up, [last_code_sent |-> last_code_sent,
                                       piece |-> piece, live |-> live])
       IN IF r.exc # NoExc
          THEN /\ tpc' = "aborted"
               /\ turn_error' = r.exc
               /\ history' = HistoryAfterFailure(history, hbase)
               /\ UNCHANGED <<messages, round, ti, results,
                              last_code_sent, piece, live>>
          ELSE /\ history' = Append(history, ToolResultMessage(r.result, tc.id))
               /\ messages' = Append(messages, ToolResultMessage(r.result, tc.id))
               /\ results' = Append(results, r.result)
               /\ last_code_sent' = r.last_code_sent
               /\ piece' = r.piece
               /\ live' = r.live
               /\ ti' = ti + 1
               /\ IF ti + 1 = Len(tool_calls) THEN NextRound(round)
                  ELSE UNCHANGED <<tpc, round>>
               /\ UNCHANGED turn_error
  /\ UNCHANGED <<tool_calls, full_content, turns, rounds, hbase, mbase, calls,
                 payload>>
  /\ UNCHANGED chatVars
  /\ UNCHANGED appVars
  /\ UNCHANGED loopVars

\* The code after the loop: the final assistant message, and the fallback
\* delivery of code extracted from the reply when no tool sent any.
Finish ==
  /\ tpc = "finish"
  /\ \E up \in BOOLEAN :
       LET h1   == IF full_content # <<>>
                   THEN Append(history, Message("assistant", full_content))
                   ELSE history
           code == ExtractCode(full_content)
       IN /\ history' = h1
          /\ IF last_code_sent = "" /\ full_content # <<>> /\ code # ""
             THEN IF up
                  THEN /\ live' = code
                       /\ piece' = code
                       /\ tpc' = "done"
                       /\ UNCHANGED turn_error
                  ELSE /\ tpc' = "aborted"
                       /\ turn_error' = RequestException
                       /\ UNCHANGED <<live, piece>>
             ELSE /\ tpc' = "done"
                  /\ UNCHANGED <<live, piece, turn_error>>
  /\ UNCHANGED <<messages, round, tool_calls, ti, full_content, last_code_sent,
                 turns, rounds, results, hbase, mbase, calls, payload>>
  /\ UNCHANGED chatVars
  /\ UNCHANGED appVars
  /\ UNCHANGED loopVars

TurnNext ==
  \/ TurnStart
  \/ ModelRound
  \/ ModelFails
  \/ DispatchNext
  \/ Finish

SpecTurn == TurnInit /\ [][TurnNext]_vars

\* ------------------------------------------ Anthropic: any HTTP status
\* The request loop of the Anthropic adapter (_blocking, _connect_stream)
\* against a vendor that may answer with any status: success, or any
\* client or server error status.
HttpStatuses == {200} \cup (400..599)

AnyResponses == { [status |-> st, message |-> "error"] : st \in HttpStatuses }

StatusInit ==
  /\ adapter = "anthropic"
  /\ stream \in BOOLEAN
  /\ pc = "idle"
  /\ attempt = 0
  /\ retries_left = MAX_RETRIES
  /\ requests = 0
  /\ responses = <<>>
  /\ waits = <<>>
  /\ outcome = NoExc
  /\ dec = AnthropicFresh
  /\ yielded = <<>>
  /\ streams = <<>>
  /\ lines = 0
  /\ TurnIdle
  /\ AppIdle
  /\ LoopIdle

AnthropicPostAny == \E r \in AnyResponses : AnthropicRequest(r)

StatusNext ==
  \/ Chat
  \/ AnthropicPostAny
  \/ AnthropicWakeConnect

SpecStatus == StatusInit /\ [][StatusNext]_vars

\* ------------------------------------------------- history manager alone
\* The history of one provider under its own operations, called in any
\* order: add_message, add_tool_call, add_tool_result and trim_history with
\* the budget of the session.
MaxHistory == 4

HistoryTexts ==
  { <<"hi">>,
    <<"play", "a", "slow", "beat">>,
    <<"set", "tempo", "120", "new", "drum", "beat", "name", "kick">> }

HistoryInit ==
  /\ adapter \in Adapters
  /\ stream = TRUE
  /\ pc = "idle"
  /\ attempt = 0
  /\ retries_left = MAX_RETRIES
  /\ requests = 0
  /\ responses = <<>>
  /\ waits = <<>>
  /\ outcome = NoExc
  /\ dec = AnthropicFresh
  /\ yielded = <<>>
  /\ streams = <<>>
  /\ lines = 0
  /\ TurnIdle
  /\ AppIdle
  /\ LoopIdle

\* Everything of the session but the history and the position.
turnRest ==
  <<messages, round, tool_calls, ti, full_content, last_code_sent, piece,
    live, turn_error, turns, rounds, results, hbase, mbase, calls, payload>>

AddMessage ==
  /\ Len(history) < MaxHistory
  /\ \E role \in {"user", "assistant"}, content \in HistoryTexts :
       history' = Append(history, Message(role, content))
  /\ tpc' = "idle"
  /\ UNCHANGED turnRest
  /\ UNCHANGED chatVars
  /\ UNCHANGED appVars
  /\ UNCHANGED loopVars

AddToolCall ==
  /\ Len(history) < MaxHistory
  /\ history' = Append(history, ToolCallMessage(<< ToolCall("t1", "silence", EmptyMapping) >>))
  /\ tpc' = "idle"
  /\ UNCHANGED turnRest
  /\ UNCHANGED chatVars
  /\ UNCHANGED appVars
  /\ UNCHANGED loopVars

AddToolResult ==
  /\ Len(history) < MaxHistory
  /\ history' = Append(history, ToolResultMessage(<<"Silenced.">>, "t1"))
  /\ tpc' = "idle"
  /\ UNCHANGED turnRest
  /\ UNCHANGED chatVars
  /\ UNCHANGED appVars
  /\ UNCHANGED loopVars

\* trim_history as run_async calls it ahead of a turn; the position records
\* that the history was just trimmed.
Trim ==
  /\ history' = TrimHistory(history, TrimBudget)
  /\ tpc' = "trimmed"
  /\ UNCHANGED turnRest
  /\ UNCHANGED chatVars
  /\ UNCHANGED appVars
  /\ UNCHANGED loopVars

HistoryNext ==
  \/ AddMessage
  \/ AddToolCall
  \/ AddToolResult
  \/ Trim

SpecHistory == HistoryInit /\ [][HistoryNext]_vars

\* ------------------------------------------------------ web application
\* The web application of create_app with two clients connected to /ws.
\* The handlers run on one event loop: a handler runs from one await to the
\* next, and the others may run while it waits.  create_app builds one
\* provider (llm) and one dispatcher; every handler uses them.  The
\* playground is up and silent.  The calls per client stay below
\* max_tool_rounds, so the loop never ends by its round limit here.
MaxWebCalls == 2
MaxSwitches == 1

\* What a client types.
UserTextOf(c) ==
  IF c = "c1" THEN <<"play", "a", "slow", "beat">>
  ELSE <<"make", "it", "faster", "please">>

\* The chunks of a model call: a reply in text, or one tool call.
WebOutputs ==
  { << Chunk(<<"hi">>, <<>>, FALSE, 0, 0), Chunk(<<>>, <<>>, TRUE, 0, 0) >>,
    << Chunk(<<>>, << ToolCall("t1", "silence", EmptyMapping) >>, FALSE, 0, 0),
       Chunk(<<>>, <<>>, TRUE, 0, 0) >> }

WebInit ==
  /\ adapter = "ollama"
  /\ stream = TRUE
  /\ pc = "idle"
  /\ attempt = 0
  /\ retries_left = MAX_RETRIES
  /\ requests = 0
  /\ responses = <<>>
  /\ waits = <<>>
  /\ outcome = NoExc
  /\ dec = AnthropicFresh
  /\ yielded = <<>>
  /\ streams = <<>>
  /\ lines = 0
  /\ TurnIdle
  /\ AppIdle
  /\ LoopIdle

\* llm.chat(messages, stream=True) for client c with the working list msgs
\* and the history h, the first call of a turn or a later one, up to the
\* next await of the handler: the send of the first token, or the send of
\* the tool result after the round's call was dispatched.
WsModelCall(c, msgs, h, first) ==
  /\ Len(sent[c]) < MaxWebCalls
  /\ sent' = [sent EXCEPT ![c] = Append(@, [first |-> first, model |-> model,
                                            messages |-> msgs])]
  /\ \E out \in WebOutputs :
       LET tcs == ToolCallsOf(out) IN
       IF tcs = <<>>
       THEN /\ wpc' = [wpc EXCEPT ![c] = "token"]
            /\ wmessages' = [wmessages EXCEPT ![c] = msgs]
            /\ history' = h
       ELSE LET r == DispatchTool(tcs[1], TRUE, [last_code_sent |-> last_code_sent,
                                                piece |-> piece, live |-> live])
            IN /\ wpc' = [wpc EXCEPT ![c] = "tool"]
               /\ wmessages' = [wmessages EXCEPT ![c] =
                                  msgs \o << AssistantMsg(ContentOf(out), tcs),
                                             ToolResultMessage(r.result, tcs[1].id) >>]
               /\ history' = h \o << ToolCallMessage(tcs),
                                     ToolResultMessage(r.result, tcs[1].id) >>

\* A message arrives on the socket of c: _build_messages, add_message and
\* the first model call of the turn.
WsStart(c) ==
  /\ wpc[c] = "idle"
  /\ WsModelCall(c, BuildMessages(UserTextOf(c), "", history),
                 Append(history, Message("user", UserTextOf(c))), TRUE)
  /\ UNCHANGED <<model, supports, plog, closed>>
  /\ UNCHANGED <<messages, tpc, round, tool_calls, ti, full_content, last_code_sent,
                 piece, live, turn_error, turns, rounds, results, hbase, mbase,
                 calls, payload>>
  /\ UNCHANGED chatVars
  /\ UNCHANGED loopVars

\* The tool result was sent to c: the next iteration of the round loop.
WsNextRound(c) ==
  /\ wpc[c] = "tool"
  /\ WsModelCall(c, wmessages[c], history, FALSE)
  /\ UNCHANGED <<model, supports, plog, closed>>
  /\ UNCHANGED <<messages, tpc, round, tool_calls, ti, full_content, last_code_sent,
                 piece, live, turn_error, turns, rounds, results, hbase, mbase,
                 calls, payload>>
  /\ UNCHANGED chatVars
  /\ UNCHANGED loopVars

\* The token was sent to c: the stream ends without tool calls, the loop
\* breaks, the reply (which holds no code) is added to the history and the
\* history is trimmed.
WsFinish(c) ==
  /\ wpc[c] = "token"
  /\ history' = TrimHistory(Append(history, Message("assistant", <<"hi">>)), TrimBudget)
  /\ wpc' = [wpc EXCEPT ![c] = "idle"]
  /\ UNCHANGED <<model, supports, plog, closed, wmessages, sent>>
  /\ UNCHANGED <<messages, tpc, round, tool_calls, ti, full_content, last_code_sent,
                 piece, live, turn_error, turns, rounds, results, hbase, mbase,
                 calls, payload>>
  /\ UNCHANGED chatVars
  /\ UNCHANGED loopVars

\* c sends "/model name": _handle_command calls llm.set_model and the
\* handler refreshes use_tools with llm.supports_tools().
WsSetModel(c) ==
  /\ wpc[c] = "idle"
  /\ Len(plog) < 3 * MaxSwitches
  /\ \E name \in Models, ans \in ShowAnswers :
       /\ model' = name
       /\ supports' = << ProbeValue(ans) >>
       /\ plog' = plog \o
            << ProbeEvent("set_model", name, ShowAnswer(FALSE, 0, FALSE, FALSE), FALSE),
               ProbeEvent("query", name, ans, FALSE),
               ProbeEvent("return", name, ShowAnswer(FALSE, 0, FALSE, FALSE),
                          ProbeValue(ans)) >>
  /\ UNCHANGED <<closed, wpc, wmessages, sent>>
  /\ UNCHANGED turnVars
  /\ UNCHANGED chatVars
  /\ UNCHANGED loopVars

WebNext ==
  \E c \in Clients :
    \/ WsStart(c)
    \/ WsNextRound(c)
    \/ WsFinish(c)
    \/ WsSetModel(c)

SpecWeb == WebInit /\ [][WebNext]_vars

\* ------------------------------------ one round over a streaming call
\* The first round of a turn of the CLI with the Anthropic adapter, the
\* streaming call of the round taken line by line: the call with its
\* retries, the collection of the chunks it yields, the dispatch loop.
MaxRoundLines == 6

RoundLines ==
  { ALine("content_block_start", "silence", "t2", <<"tool_use">>, 0),
    ALine("content_block_stop", "", "", <<>>, 0),
    ALine("error", "overloaded_error", "", <<>>, 0),
    ALine("message_stop", "", "", <<>>, 0) }

RoundResponses ==
  { [status |-> 200, message |-> ""],
    [status |-> 529, message |-> "overloaded"] }

RoundInit ==
  /\ adapter = "anthropic"
  /\ stream = TRUE
  /\ pc = "idle"
  /\ attempt = 0
  /\ retries_left = MAX_RETRIES
  /\ requests = 0
  /\ responses = <<>>
  /\ waits = <<>>
  /\ outcome = NoExc
  /\ dec = AnthropicFresh
  /\ yielded = <<>>
  /\ streams = <<>>
  /\ lines = 0
  /\ TurnIdle
  /\ AppIdle
  /\ LoopIdle

\* for chunk in self.llm.chat(messages, tools=tools, stream=True): the call
\* is made.
RoundChat ==
  /\ tpc = "model"
  /\ Chat

\* requests.post in _connect_stream, answered with success or overload.
RoundPost == \E r \in RoundResponses : AnthropicRequest(r)

\* One line of resp.iter_lines() in _stream.
RoundLine ==
  /\ adapter = "anthropic"
  /\ pc = "iter"
  /\ lines < MaxRoundLines
  /\ \E e \in RoundLines :
       LET r == AnthropicStep(dec, e) IN
       /\ streams' = [streams EXCEPT ![Len(streams)] = Append(@, e)]
       /\ lines' = lines + 1
       /\ responses' = <<>>
       /\ dec' = r.dec
       /\ yielded' = yielded \o r.out
       /\ closed' = IF StreamCloses(r.ctl) THEN closed \cup {Len(streams)} ELSE closed
       /\ CASE r.ctl = "next" ->
                 UNCHANGED <<pc, outcome, waits>>
            [] r.ctl = "break" ->
                 pc' = "returned" /\ UNCHANGED <<outcome, waits>>
            [] r.ctl = "raise" ->
                 IF StreamCatches(r.exc)
                 THEN IF retries_left <= 0
                      THEN /\ Raise(RuntimeError("max_retries_exceeded", 0, r.exc.message))
                           /\ UNCHANGED waits
                      ELSE /\ pc' = "sleep_stream"
                           /\ waits' = Append(waits, BackoffWait(MAX_RETRIES - retries_left))
                           /\ UNCHANGED outcome
                 ELSE Raise(r.exc) /\ UNCHANGED waits
  /\ UNCHANGED <<adapter, stream, attempt, retries_left, requests>>
  /\ UNCHANGED turnVars
  /\ UNCHANGED <<model, supports, plog, wpc, wmessages, sent>>
  /\ UNCHANGED loopVars

\* The chunk loop of the round has ended: the chunks the call yielded have
\* gone through tool_calls.extend and round_content += token; the loop
\* breaks, or the assistant tool-call message is appended and the dispatch
\* loop begins.
RoundCollect ==
  /\ tpc = "model"
  /\ pc = "returned"
  /\ pc' = "collected"
  /\ calls' = calls + 1
  /\ payload' = ConvertMessages(adapter, messages)
  /\ LET round_content == ContentOf(yielded)
         tcs == ToolCallsOf(yielded)
     IN /\ full_content' = full_content \o round_content
        /\ rounds' = Append(rounds, [content |-> round_content, tool_calls |-> tcs])
        /\ tool_calls' = tcs
        /\ ti' = 0
        /\ IF LoopBreaks(tcs)
           THEN /\ tpc' = "finish"
                /\ UNCHANGED <<messages, history, round>>
           ELSE /\ messages' = Append(messages, AssistantMsg(round_content, tcs))
                /\ history' = Append(history, ToolCallMessage(tcs))
                /\ tpc' = "dispatch"
                /\ UNCHANGED round
  /\ UNCHANGED <<last_code_sent, piece, live, turn_error, turns, results, hbase, mbase>>
  /\ UNCHANGED <<adapter, stream, attempt, retries_left, requests, responses,
                 waits, outcome, dec, yielded, streams, lines>>
  /\ UNCHANGED appVars
  /\ UNCHANGED loopVars

\* The call raised: the exception leaves the turn.
RoundFails ==
  /\ tpc = "model"
  /\ pc = "raised"
  /\ tpc' = "aborted"
  /\ turn_error' = outcome
  /\ UNCHANGED <<history, messages, round, tool_calls, ti, full_content,
                 last_code_sent, piece, live, turns, rounds, results, hbase, mbase,
                 calls, payload>>
  /\ UNCHANGED chatVars
  /\ UNCHANGED appVars
  /\ UNCHANGED loopVars

RoundNext ==
  \/ (turns = 0 /\ TurnStart)
  \/ RoundChat
  \/ RoundPost
  \/ AnthropicWakeConnect
  \/ RoundLine
  \/ AnthropicEof
  \/ AnthropicWakeStream
  \/ RoundCollect
  \/ RoundFails
  \/ DispatchNext

SpecRound == RoundInit /\ [][RoundNext]_vars

\* ------------------------------------------- the three loops, same inputs
\* The orchestration loop is written three times: _handle_streaming_response
\* of the CLI, websocket_chat and POST /api/chat of the web application.
\* Here a session of each runs in turn, each on a fresh application, fed
\* the same inputs: the model output of every round and, per turn, whether
\* the playground answers.  A session is over when its turns or the model
\* outputs have run out.
MaxScript == 4
MaxLoopTurns == 2

\* What the model may answer in a round: a reply in text, a reply holding a
\* fenced block of code, a send_code call, a get_current_piece call.
LoopOutputs ==
  { << Chunk(<<"hi">>, <<>>, FALSE, 0, 0), Chunk(<<>>, <<>>, TRUE, 7, 3) >>,
    << Chunk(<<"<fence>", "2", "<fence>">>, <<>>, FALSE, 0, 0), Chunk(<<>>, <<>>, TRUE, 7, 3) >>,
    << Chunk(<<>>, << ToolCall("t1", "send_code", {<<"code", "1">>}) >>, FALSE, 0, 0),
       Chunk(<<>>, <<>>, TRUE, 7, 3) >>,
    << Chunk(<<>>, << ToolCall("t2", "get_current_piece", EmptyMapping) >>, FALSE, 0, 0),
       Chunk(<<>>, <<>>, TRUE, 7, 3) >> }

Scripts == UNION { [1..n -> LoopOutputs] : n \in 1..MaxScript }

LoopUserText == <<"play", "a", "slow", "beat">>

LoopsInit ==
  /\ adapter = "ollama"
  /\ stream = TRUE
  /\ pc = "idle"
  /\ attempt = 0
  /\ retries_left = MAX_RETRIES
  /\ requests = 0
  /\ responses = <<>>
  /\ waits = <<>>
  /\ outcome = NoExc
  /\ dec = AnthropicFresh
  /\ yielded = <<>>
  /\ streams = <<>>
  /\ lines = 0
  /\ TurnIdle
  /\ AppIdle
  /\ loop = "cli"
  /\ inputs \in [script : Scripts, ups : [1..MaxLoopTurns -> BOOLEAN]]
  /\ code_sent = ""
  /\ contacts = <<>>
  /\ outcomes = [l \in Loops |-> <<>>]

\* The record of the turn in progress gains the messages msgs.
Appends(msgs) ==
  outcomes' = [outcomes EXCEPT ![loop][turns].appended = @ \o msgs]

\* A user message arrives: trim_history first in the CLI (run_async) and
\* not in the web handlers; _build_messages, add_message("user", ...); the
\* CLI resets dispatcher.last_code_sent, the web handlers set their local
\* code_sent to None.
LoopStart ==
  /\ loop \in Loops
  /\ tpc \in {"idle", "done", "aborted"}
  /\ turns < MaxLoopTurns
  /\ calls < Len(inputs.script)
  /\ LET up      == inputs.ups[turns + 1]
         h0      == IF loop = "cli" THEN TrimHistory(history, TrimBudget) ELSE history
         lv      == GetCurrentCode(up, live)
         current == IF lv # "" THEN lv ELSE piece
         msgs    == BuildMessages(LoopUserText, current, h0)
     IN /\ messages' = msgs
        /\ history' = Append(h0, Message("user", LoopUserText))
        /\ piece' = IF current # "" THEN current ELSE piece
        /\ mbase' = Len(msgs)
        /\ hbase' = Len(h0) + 1
  /\ last_code_sent' = IF loop = "cli" THEN "" ELSE last_code_sent
  /\ code_sent' = ""
  /\ contacts' = Append(contacts, "GET /api/code")
  /\ outcomes' = [outcomes EXCEPT ![loop] =
                    Append(@, [appended |-> << Message("user", LoopUserText) >>,
                               completed |-> FALSE, code |-> ""])]
  /\ tpc' = "model"
  /\ round' = 0
  /\ tool_calls' = <<>>
  /\ ti' = 0
  /\ full_content' = <<>>
  /\ turn_error' = NoExc
  /\ turns' = turns + 1
  /\ rounds' = <<>>
  /\ results' = <<>>
  /\ UNCHANGED <<live, calls, payload, loop, inputs>>
  /\ UNCHANGED chatVars
  /\ UNCHANGED appVars

\* One round up to its dispatch loop, the model answering with the next
\* output of the script: llm.chat streamed chunk by chunk (CLI, web socket)
\* or as one response (POST /api/chat), the content and the tool calls
\* being the same.
LoopRound ==
  /\ loop \in Loops
  /\ tpc = "model"
  /\ calls < Len(inputs.script)
  /\ calls' = calls + 1
  /\ payload' = ConvertMessages(adapter, messages)
  /\ LET out == inputs.script[calls + 1]
         round_content == ContentOf(out)
         tcs == ToolCallsOf(out)
     IN /\ full_content' = full_content \o round_content
        /\ rounds' = Append(rounds, [content |-> round_content, tool_calls |-> tcs])
        /\ tool_calls' = tcs
        /\ ti' = 0
        /\ IF LoopBreaks(tcs)
           THEN /\ tpc' = "finish"
                /\ UNCHANGED <<messages, history, outcomes>>
           ELSE /\ messages' = Append(messages, AssistantMsg(round_content, tcs))
                /\ history' = Append(history, ToolCallMessage(tcs))
                /\ Appends(<< ToolCallMessage(tcs) >>)
                /\ tpc' = "dispatch"
  /\ UNCHANGED <<round, last_code_sent, piece, live, turn_error, turns, results,
                 hbase, mbase>>
  /\ UNCHANGED <<loop, inputs, code_sent, contacts>>
  /\ UNCHANGED chatVars
  /\ UNCHANGED appVars

\* One iteration of "for tc in tool_calls"; after the last one the web
\* handlers take code_sent = dispatcher.last_code_sent.  A raise of the
\* dispatcher leaves the turn: run_async reports it, websocket_chat sends
\* an error message, POST /api/chat fails.
LoopDispatch ==
  /\ loop \in Loops
  /\ tpc = "dispatch"
  /\ LET tc == tool_calls[ti + 1]
         r  == DispatchTool(tc, inputs.ups[turns],
                            [last_code_sent |-> last_code_sent,
                             piece |-> piece, live |-> live])
     IN /\ contacts' = contacts \o r.contacts
        /\ IF r.exc # NoExc
           THEN /\ tpc' = "aborted"
                /\ turn_error' = r.exc
                /\ UNCHANGED <<history, messages, round, ti, results,
                               last_code_sent, piece, live, code_sent, outcomes>>
           ELSE /\ history' = Append(history, ToolResultMessage(r.result, tc.id))
                /\ messages' = Append(messages, ToolResultMessage(r.result, tc.id))
                /\ Appends(<< ToolResultMessage(r.result, tc.id) >>)
                /\ results' = Append(results, r.result)
                /\ last_code_sent' = r.last_code_sent
                /\ piece' = r.piece
                /\ live' = r.live
                /\ ti' = ti + 1
                /\ IF ti + 1 = Len(tool_calls)
                   THEN /\ NextRound(round)
                        /\ code_sent' = IF loop = "cli" THEN code_sent
                                        ELSE r.last_code_sent
                   ELSE UNCHANGED <<tpc, round, code_sent>>
                /\ UNCHANGED turn_error
  /\ UNCHANGED <<tool_calls, full_content, turns, rounds, hbase, mbase, calls,
                 payload>>
  /\ UNCHANGED <<loop, inputs>>
  /\ UNCHANGED chatVars
  /\ UNCHANGED appVars

\* The code after the loop.  CLI: the reply is added to the history, then
\* code found in it is delivered when dispatcher.last_code_sent is not set.
\* Web handlers: code found in the reply is delivered when code_sent is
\* not set, then the reply is added and the history trimmed; the turn
\* reports code_sent.
LoopFinish ==
  /\ loop \in Loops
  /\ tpc = "finish"
  /\ LET up    == inputs.ups[turns]
         reply == IF full_content # <<>>
                  THEN << Message("assistant", full_content) >> ELSE <<>>
         code  == ExtractCode(full_content)
         marked == IF loop = "cli" THEN last_code_sent ELSE code_sent
         falls == marked = "" /\ full_content # <<>> /\ code # ""
         ends(ok, msgs, c) ==
           outcomes' = [outcomes EXCEPT
                          ![loop][turns].appended = @ \o msgs,
                          ![loop][turns].completed = ok,
                          ![loop][turns].code = c]
     IN /\ contacts' = IF falls THEN Append(contacts, "POST /api/code") ELSE contacts
        /\ IF falls /\ ~up
           THEN /\ tpc' = "aborted"
                /\ turn_error' = RequestException
                /\ history' = IF loop = "cli" THEN history \o reply ELSE history
                /\ ends(FALSE, IF loop = "cli" THEN reply ELSE <<>>, "")
                /\ UNCHANGED <<live, piece, code_sent>>
           ELSE /\ tpc' = "done"
                /\ history' = IF loop = "cli" THEN history \o reply
                              ELSE TrimHistory(history \o reply, TrimBudget)
                /\ live' = IF falls THEN code ELSE live
                /\ piece' = IF falls THEN code ELSE piece
                /\ code_sent' = IF loop # "cli" /\ falls THEN code ELSE code_sent
                /\ ends(TRUE, reply, IF falls THEN code ELSE marked)
                /\ UNCHANGED turn_error
  /\ UNCHANGED <<messages, round, tool_calls, ti, full_content, last_code_sent,
                 turns, rounds, results, hbase, mbase, calls, payload>>
  /\ UNCHANGED <<loop, inputs>>
  /\ UNCHANGED chatVars
  /\ UNCHANGED appVars

\* The session of the running loop is over.
LoopSessionOver ==
  \/ /\ tpc \in {"done", "aborted"}
     /\ (turns = MaxLoopTurns \/ calls = Len(inputs.script))
  \/ /\ tpc = "model"
     /\ calls = Len(inputs.script)

\* The next implementation takes over on a fresh application (provider,
\* dispatcher, piece state, playground), with the same inputs.
LoopSwitch ==
  /\ loop \in Loops
  /\ LoopSessionOver
  /\ loop' = CASE loop = "cli" -> "ws"
               [] loop = "ws"  -> "chat"
               [] OTHER        -> "end"
  /\ history' = <<>>
  /\ messages' = <<>>
  /\ tpc' = "idle"
  /\ round' = 0
  /\ tool_calls' = <<>>
  /\ ti' = 0
  /\ full_content' = <<>>
  /\ last_code_sent' = ""
  /\ piece' = ""
  /\ live' = ""
  /\ turn_error' = NoExc
  /\ turns' = 0
  /\ rounds' = <<>>
  /\ results' = <<>>
  /\ hbase' = 0
  /\ mbase' = 0
  /\ calls' = 0
  /\ payload' = [system |-> <<>>, messages |-> <<>>]
  /\ code_sent' = ""
  /\ contacts' = <<>>
  /\ UNCHANGED <<inputs, outcomes>>
  /\ UNCHANGED chatVars
  /\ UNCHANGED appVars

LoopsNext ==
  \/ LoopStart
  \/ LoopRound
  \/ LoopDispatch
  \/ LoopFinish
  \/ LoopSwitch

SpecLoops == LoopsInit /\ [][LoopsNext]_vars

\* ------------------------------------------------------ dispatcher alone
\* The dispatcher of a session under tool calls of any kind, one after the
\* other, the playground answering each time or not.
MaxDispatches == 3

DispatchCalls ==
  { ToolCall("t1", "send_code", {<<"code", "1">>}),
    ToolCall("t1", "send_code", {<<"code", "2">>}),
    ToolCall("t1", "send_code", {<<"code", "">>}),
    ToolCall("t1", "send_code", EmptyMapping),
    ToolCall("t1", "silence", EmptyMapping),
    ToolCall("t1", "get_current_piece", EmptyMapping),
    ToolCall("t1", "play", EmptyMapping) }

DispatchInit ==
  /\ adapter = "ollama"
  /\ stream = TRUE
  /\ pc = "idle"
  /\ attempt = 0
  /\ retries_left = MAX_RETRIES
  /\ requests = 0
  /\ responses = <<>>
  /\ waits = <<>>
  /\ outcome = NoExc
  /\ dec = AnthropicFresh
  /\ yielded = <<>>
  /\ streams = <<>>
  /\ lines = 0
  /\ TurnIdle
  /\ AppIdle
  /\ LoopIdle

\* dispatcher.dispatch(tc): tool_calls holds the call, turn_error the
\* exception it raised; the string it returned is added to results, the
\* requests it made to the playground to contacts.
Dispatch ==
  /\ ti < MaxDispatches
  /\ \E tc \in DispatchCalls, up \in BOOLEAN :
       LET r == DispatchTool(tc, up, [last_code_sent |-> last_code_sent,
                                      piece |-> piece, live |-> live])
       IN /\ tool_calls' = << tc >>
          /\ turn_error' = r.exc
          /\ results' = IF r.exc = NoExc THEN Append(results, r.result) ELSE results
          /\ contacts' = contacts \o r.contacts
          /\ last_code_sent' = r.last_code_sent
          /\ piece' = r.piece
          /\ live' = r.live
  /\ ti' = ti + 1
  /\ UNCHANGED <<history, messages, tpc, round, full_content, turns, rounds,
                 hbase, mbase, calls, payload>>
  /\ UNCHANGED <<loop, inputs, code_sent, outcomes>>
  /\ UNCHANGED chatVars
  /\ UNCHANGED appVars

DispatchOnlyNext == Dispatch

SpecDispatch == DispatchInit /\ [][DispatchOnlyNext]_vars

\* =============================================================== claims
Transient(r) == r.status \in {429, 500, 502, 503, 529}
DoneCount(q) == Cardinality({i \in DOMAIN q : q[i].done})

\* The responses of the first request loop of the call are two transient
\* statuses followed by a success.
TwoTransientThenOk ==
  /\ adapter = "anthropic"
  /\ requests = 3
  /\ Len(responses) = 3
  /\ Transient(responses[1]) /\ Transient(responses[2]) /\ RespOk(responses[3])

\* C1: in the Anthropic adapter a call whose first two HTTP responses are
\* transient and whose third is a success completes the blocking call (or
\* the connection phase of the streaming call) after exactly 3 requests and
\* exactly 2 backoff waits, 2s then 5s.
C1_TwoTransientThenSuccess ==
  TwoTransientThenOk =>
    /\ outcome = NoExc \/ stream
    /\ Len(waits) >= 2 /\ waits[1] = 2 /\ waits[2] = 5
    /\ ~stream => pc = "returned" /\ Len(waits) = 2
    /\ stream => Len(streams) = 1
    /\ (stream /\ Last(streams) = <<>>) =>
         pc \in {"iter", "returned"} /\ Len(waits) = 2 /\ outcome = NoExc

C1_Witness ==
  /\ TwoTransientThenOk
  /\ ~stream
  /\ pc = "returned"

\* C2: in the Anthropic adapter a request loop that receives 3 consecutive
\* transient statuses ends in a fatal error after exactly 3 requests: the
\* loop never makes a fourth request.
C2_ThreeTransientFatal ==
  adapter = "anthropic" =>
    /\ Len(responses) <= 3
    /\ (Len(responses) = 3 /\ \A i \in 1..3 : Transient(responses[i])) =>
         /\ pc = "raised"
         /\ outcome.exc = "RuntimeError"
         /\ (~stream => requests = 3)

C2_Witness ==
  /\ adapter = "anthropic"
  /\ ~stream
  /\ Len(responses) = 3
  /\ \A i \in 1..3 : Transient(responses[i])
  /\ pc = "raised"

\* The call ended because a transient failure could not be retried any
\* more: the failure that ended it, as the vendor reported it.
EndedByTransientStatus ==
  /\ pc = "raised"
  /\ responses # <<>>
  /\ Transient(Last(responses))
EndedByTransientInStream ==
  /\ pc = "raised"
  /\ responses = <<>>
  /\ streams # <<>>
  /\ Last(streams) # <<>>
  /\ Last(Last(streams)).type = "error"
  /\ Last(Last(streams)).name \in {"overloaded_error", "api_error"}

\* C3 (as claimed): whenever the retry budget of an Anthropic call is
\* exhausted, at connection time or mid-stream, the surfaced error is the
\* "max retries exceeded" error and carries the last vendor message.
C3_ExhaustionIsMaxRetries ==
  adapter = "anthropic" =>
    /\ EndedByTransientStatus =>
         /\ outcome.what = "max_retries_exceeded"
         /\ outcome.message = Last(responses).message
    /\ EndedByTransientInStream =>
         /\ outcome.what = "max_retries_exceeded"
         /\ outcome.message = Last(Last(streams)).name

\* C4 (as claimed): one streaming chat call of the Anthropic adapter issues
\* at most 3 HTTP requests, connection-time and mid-stream retries together.
C4_StreamAtMostThreeRequests ==
  (adapter = "anthropic" /\ stream) => requests <= 3

C6_Got401 == responses # <<>> /\ Last(responses).status = 401
C6_Unauthorized401Fatal ==
  /\ [](C6_Got401 =>
          /\ pc = "raised"
          /\ outcome.exc \in {"RuntimeError", "HTTPError"}
          /\ adapter \in {"anthropic", "openai"} => outcome.what = "invalid_api_key"
          /\ \A i \in 1..(Len(responses) - 1) : responses[i].status # 401)
  /\ [][ /\ (C6_Got401' /\ responses' # responses) =>
              /\ waits' = waits
              /\ requests' = requests + 1
         /\ C6_Got401 => (requests' = requests /\ waits' = waits /\ yielded' = yielded) ]_vars

C6_Witness ==
  /\ C6_Got401
  /\ Len(responses) = 3
  /\ waits # <<>>
  /\ pc = "raised"

\* C7: in the Anthropic streaming path an in-stream overload error event is
\* handled like a transient status: the stream is abandoned for a backoff
\* wait (nothing reaches the caller) and the request is re-issued on a new
\* stream whose decoder locals start empty, so that at any time the locals
\* are those produced by the lines of the current stream alone.
C7_InStreamOverloadFreshDecoder ==
  (adapter = "anthropic" /\ stream) =>
    /\ pc = "sleep_stream" =>
         /\ Last(Last(streams)).type = "error"
         /\ outcome = NoExc
         /\ waits # <<>>
    /\ (pc \in {"iter", "returned", "sleep_stream"} /\ streams # <<>>) =>
         dec = AnthropicLocalsAfter(AnthropicFresh, Last(streams))
    /\ Len(streams) = MAX_RETRIES - retries_left + (IF pc \in {"post", "sleep_connect"} THEN 0 ELSE 1)
       \/ pc \in {"idle", "raised"}

C7_Witness ==
  /\ adapter = "anthropic"
  /\ Len(streams) = 2
  /\ streams[1][1].type = "content_block_start"
  /\ Len(streams[2]) >= 1
  /\ streams[2][1].type = "content_block_stop"
  /\ pc = "returned"

\* All chunks of the streams ss, each decoded on its own from fresh locals.
RECURSIVE ChunksOfStreams(_)
ChunksOfStreams(ss) ==
  IF ss = <<>> THEN <<>>
  ELSE AnthropicRun(AnthropicFresh, Head(ss)) \o ChunksOfStreams(Tail(ss))

\* C8: the chunk sequence seen by the consumer of an Anthropic streaming
\* call is, at any time, the chunks of each failed stream up to its failure
\* (each once, in order) followed by the chunks of the newly opened stream;
\* chunks already delivered are never retracted.
C8_RetryContinuesSequence ==
  /\ []((adapter = "anthropic" /\ stream) => yielded = ChunksOfStreams(streams))
  /\ [][ /\ Len(yielded') >= Len(yielded)
         /\ SubSeq(yielded', 1, Len(yielded)) = yielded ]_vars

C8_Witness ==
  /\ adapter = "anthropic"
  /\ pc = "returned"
  /\ Len(streams) = 2
  /\ Len(streams[1]) = 2
  /\ streams[1][1].type = "text_delta"
  /\ Len(yielded) = 2
  /\ yielded[2].done

\* C9: the internal retryable error never reaches the caller of chat: a
\* finished call has either returned normally or raised a fatal error.
C9_RetryableNeverSurfaces ==
  /\ outcome.exc # "_RetryableError"
  /\ pc = "raised" <=> outcome # NoExc

C9_Witness ==
  /\ adapter = "anthropic"
  /\ stream
  /\ pc = "raised"
  /\ retries_left = 0
  /\ outcome.what = "max_retries_exceeded"

\* C10 (as claimed): a streaming call that returns normally has yielded
\* exactly one chunk with done = true, and it is the last chunk.
C10_ExactlyOneDoneLast ==
  (stream /\ pc = "returned") =>
    /\ yielded # <<>>
    /\ Last(yielded).done
    /\ DoneCount(yielded) = 1

\* The token usage the vendor reported in the stream lines ls, as the pair
\* <<input, output>> (zero where none was reported): for Anthropic the counts
\* of message_start and message_delta, for the OpenAI-compatible vendor the
\* usage object of a chunk, for Ollama the counts of the final record.
RECURSIVE ReportedUsage(_, _, _)
ReportedUsage(a, ls, acc) ==
  IF ls = <<>> THEN acc
  ELSE LET e == Head(ls)
           nxt == IF a = "anthropic"
                  THEN (IF e.type = "message_start" THEN <<e.n, acc[2]>>
                        ELSE IF e.type = "message_delta" THEN <<acc[1], e.n>>
                        ELSE acc)
                  ELSE IF a = "openai"
                  THEN (IF e.type = "chunk" /\ e.usage # <<>> THEN e.usage ELSE acc)
                  ELSE (IF e.type = "json" /\ e.chunk.done
                        THEN <<e.chunk.prompt_eval_count, e.chunk.eval_count>>
                        ELSE acc)
       IN ReportedUsage(a, Tail(ls), nxt)

\* C11 (as claimed): once a stream has been read to its end, every chunk
\* with done = true carries the usage the vendor reported in that stream and
\* every other chunk carries zero counts.
C11_UsageOnDoneChunk ==
  (stream /\ pc = "returned" /\ Len(streams) = 1) =>
    \A i \in DOMAIN yielded :
      LET c == yielded[i]
          u == ReportedUsage(adapter, streams[1], <<0, 0>>)
      IN IF c.done
         THEN c.prompt_eval_count = u[1] /\ c.eval_count = u[2]
         ELSE c.prompt_eval_count = 0 /\ c.eval_count = 0

\* C14 (as claimed): a stream line that is empty or is not valid JSON is
\* skipped by every adapter: reading it raises nothing.
C14_MalformedLineSkipped ==
  (stream /\ streams # <<>> /\ Last(streams) # <<>>
     /\ Last(Last(streams)).type \in {"blank", "badjson"})
    => pc # "raised"

\* The tool invocations that have both started and ended within the lines
\* ls, in start order, each with the parse of the concatenation of the
\* argument fragments that arrived between its start and its end (the empty
\* mapping when there is none or it does not parse).  cur is <<>> or the
\* <<id, name>> of the invocation that is open, frags its fragments so far.
RECURSIVE EndedInvocations(_, _, _)
EndedInvocations(ls, cur, frags) ==
  IF ls = <<>> THEN <<>>
  ELSE LET e == Head(ls) IN
       CASE e.type = "content_block_start" ->
              EndedInvocations(Tail(ls),
                               IF e.text = <<"tool_use">> THEN <<e.id, e.name>> ELSE <<>>,
                               <<>>)
         [] e.type = "input_json_delta" ->
              EndedInvocations(Tail(ls), cur, frags \o e.text)
         [] e.type = "content_block_stop" /\ cur # <<>> ->
              << ToolCall(cur[1], cur[2],
                          IF JsonLoads(frags).ok THEN JsonLoads(frags).value ELSE {}) >>
              \o EndedInvocations(Tail(ls), <<>>, <<>>)
         [] OTHER -> EndedInvocations(Tail(ls), cur, frags)

\* C12: at every point of an Anthropic stream the tool calls delivered so
\* far are exactly the invocations that have ended, one ToolCall each, in
\* start order, with the parse of that invocation's own fragments as
\* arguments, and each is delivered alone in its chunk; an invocation that
\* has started but not ended is not exposed.
C12_OnlyEndedInvocationsSurface ==
  /\ ToolCallsOf(yielded) = EndedInvocations(Last(streams), <<>>, <<>>)
  /\ \A i \in DOMAIN yielded : Len(yielded[i].tool_calls) <= 1

\* Two invocations have ended: the first received a complete argument
\* object in two fragments, the second a single fragment of its own.
C12_Witness ==
  /\ Len(ToolCallsOf(yielded)) = 2
  /\ ToolCallsOf(yielded)[1].arguments = {<<"a", "1">>, <<"b", "2">>}
  /\ ToolCallsOf(yielded)[1].id # ToolCallsOf(yielded)[2].id
  /\ Len(Last(streams)) = 7
  /\ Last(streams)[6].type = "input_json_delta"

\* The tool invocation that is open after the Anthropic lines ls, as
\* <<cur, frags>>: cur is <<>> or its <<id, name>>, frags the argument text
\* received since its start.
RECURSIVE OpenInvocation(_, _, _)
OpenInvocation(ls, cur, frags) ==
  IF ls = <<>> THEN <<cur, frags>>
  ELSE LET e == Head(ls) IN
       CASE e.type = "content_block_start" /\ e.text = <<"tool_use">> ->
              OpenInvocation(Tail(ls), <<e.id, e.name>>, <<>>)
         [] e.type = "input_json_delta" ->
              OpenInvocation(Tail(ls), cur, frags \o e.text)
         [] e.type = "content_block_stop" ->
              OpenInvocation(Tail(ls), <<>>, <<>>)
         [] OTHER -> OpenInvocation(Tail(ls), cur, frags)

\* The argument text the OpenAI-compatible vendor has sent for the tool call
\* of index idx in the lines ls since the last chunk with a finish reason
\* (the deltas of the last line included).
RECURSIVE OpenAIArgText(_, _, _)
OpenAIArgText(ls, idx, acc) ==
  IF ls = <<>> THEN acc
  ELSE LET e == Head(ls)
           mine == IF e.type = "chunk" /\ e.choice
                   THEN SelectSeq(e.tool_calls, LAMBDA tc : tc.index = idx)
                   ELSE <<>>
           add == IF mine = <<>> THEN <<>> ELSE mine[1].arguments
       IN IF Tail(ls) # <<>> /\ e.type = "chunk" /\ e.choice /\ e.finish # ""
          THEN OpenAIArgText(Tail(ls), idx, <<>>)
          ELSE OpenAIArgText(Tail(ls), idx, acc \o add)

Unparseable(text) == text # <<>> /\ ~JsonLoads(text).ok

\* C13: when the argument text buffered for a tool invocation does not
\* parse as JSON at the end of the invocation, the ToolCall is delivered
\* with the empty mapping as arguments, nothing is raised and the call goes
\* on (the stream is still being read, the blocking call returns): in the
\* Anthropic stream decoder, the OpenAI-compatible stream decoder and the
\* OpenAI-compatible blocking response.
C13_UnparseableArgsBecomeEmpty ==
  /\ adapter \in {"anthropic", "openai"} => outcome.exc # "JSONDecodeError"
  /\ (adapter = "anthropic" /\ stream /\ streams # <<>> /\ Last(streams) # <<>>) =>
       LET ls == Last(streams)
           before == OpenInvocation(SubSeq(ls, 1, Len(ls) - 1), <<>>, <<>>)
       IN (Last(ls).type = "content_block_stop" /\ before[1] # <<>>
             /\ Unparseable(before[2])) =>
            /\ pc \in {"iter", "returned"} /\ outcome = NoExc
            /\ yielded # <<>>
            /\ Last(yielded) = Chunk(<<>>, << ToolCall(before[1][1], before[1][2], {}) >>,
                                     FALSE, 0, 0)
  /\ (adapter = "openai" /\ stream /\ streams # <<>> /\ Last(streams) # <<>>) =>
       LET ls == Last(streams) IN
       (Last(ls).type = "chunk" /\ Last(ls).choice /\ Last(ls).finish # ""
          /\ Unparseable(OpenAIArgText(ls, 0, <<>>))) =>
            /\ pc \in {"iter", "returned"} /\ outcome = NoExc
            /\ Len(yielded) >= 2
            /\ Last(yielded).done
            /\ yielded[Len(yielded) - 1].tool_calls # <<>>
            /\ yielded[Len(yielded) - 1].tool_calls[1].arguments = {}
  /\ (adapter = "openai" /\ ~stream /\ pc = "returned") =>
       LET tcs == streams[1][1].message.tool_calls IN
       /\ outcome = NoExc
       /\ Len(yielded) = 1
       /\ Len(yielded[1].tool_calls) = Len(tcs)
       /\ \A k \in DOMAIN tcs :
            /\ yielded[1].tool_calls[k].id = tcs[k].id
            /\ yielded[1].tool_calls[k].name = tcs[k].function.name
            /\ Unparseable(tcs[k].function.arguments) =>
                 yielded[1].tool_calls[k].arguments = {}

\* An Anthropic invocation ended with half an argument object buffered, its
\* ToolCall was delivered with empty arguments and the text that followed
\* was decoded.
C13_Witness ==
  /\ adapter = "anthropic" /\ stream /\ pc = "iter"
  /\ Len(streams) = 1
  /\ Len(streams[1]) = 4
  /\ streams[1][2] = ALine("input_json_delta", "", "", Frag1, 0)
  /\ streams[1][3].type = "content_block_stop"
  /\ yielded = << Chunk(<<>>, << ToolCall("t1", "send_code", {}) >>, FALSE, 0, 0),
                  Chunk(<<"hi">>, <<>>, FALSE, 0, 0) >>

\* The content of the rounds rs, concatenated in order.
RECURSIVE ContentOfRounds(_)
ContentOfRounds(rs) ==
  IF rs = <<>> THEN <<>> ELSE Head(rs).content \o ContentOfRounds(Tail(rs))

\* The number of tool calls the rounds rs returned.
RECURSIVE TotalCalls(_)
TotalCalls(rs) ==
  IF rs = <<>> THEN 0 ELSE Len(Head(rs).tool_calls) + TotalCalls(Tail(rs))

\* C15: one user turn makes at most 5 model calls; when the last tool call
\* of the fifth round has been answered the loop stops there, without a
\* sixth model call and without raising, and a turn that returns after five
\* tool rounds returns the content accumulated over all its rounds.
C15_AtMostFiveRounds ==
  /\ [](/\ Len(rounds) <= 5
        /\ tpc = "model" => Len(rounds) = round /\ round < 5
        /\ tpc \in {"finish", "done"} =>
             turn_error = NoExc /\ full_content = ContentOfRounds(rounds))
  /\ [][ (tpc = "dispatch" /\ Len(rounds) = 5 /\ ti' = Len(tool_calls)) =>
           (tpc' = "finish" /\ turn_error' = NoExc /\ calls' = calls) ]_vars

\* A turn has returned after five rounds that all returned tool calls.
C15_Witness ==
  /\ tpc = "done"
  /\ Len(rounds) = 5
  /\ \A i \in 1..5 : rounds[i].tool_calls # <<>>
  /\ full_content # <<>>
  /\ Len(results) >= 5

\* C16: the round whose response carries no tool call ends the loop: that
\* round appends nothing, and afterwards, within the turn, there is no model
\* call, no dispatch and no assistant tool-call or tool message (only the
\* final assistant message with the accumulated content may be appended).
C16_NoToolCallsEndsLoop ==
  /\ []((rounds # <<>> /\ Last(rounds).tool_calls = <<>>) =>
          tpc \in {"finish", "done", "aborted"})
  /\ [][ (Len(rounds') = Len(rounds) + 1 /\ Last(rounds').tool_calls = <<>>) =>
           (tpc' = "finish" /\ messages' = messages /\ history' = history
              /\ results' = results) ]_vars
  /\ [][ (rounds # <<>> /\ Last(rounds).tool_calls = <<>> /\ turns' = turns) =>
           /\ calls' = calls /\ rounds' = rounds /\ results' = results
           /\ messages' = messages
           /\ \/ history' = history
              \/ history' = Append(history, [role |-> "assistant",
                                             content |-> full_content]) ]_vars

\* A turn returned after one round with tool calls and one without.
C16_Witness ==
  /\ tpc = "done"
  /\ Len(rounds) = 2
  /\ rounds[1].tool_calls # <<>>
  /\ rounds[2].tool_calls = <<>>
  /\ rounds[2].content # <<>>
  /\ Len(messages) = mbase + 1 + Len(rounds[1].tool_calls)

\* The messages a turn has to append for the rounds rs when the dispatcher
\* has returned the results res so far: per round with k > 0 calls one
\* assistant message carrying the calls (with the round's content when
\* with_content) followed by one tool message per answered call, in call
\* order, with the call's id and the dispatcher's result.
RECURSIVE RoundMessages(_, _, _)
RoundMessages(rs, res, with_content) ==
  IF rs = <<>> THEN <<>>
  ELSE LET r == Head(rs)
           k == Len(r.tool_calls)
           n == IF k <= Len(res) THEN k ELSE Len(res)
           asst == IF with_content /\ r.content # <<>>
                   THEN [role |-> "assistant", content |-> r.content,
                         tool_calls |-> r.tool_calls]
                   ELSE [role |-> "assistant", tool_calls |-> r.tool_calls]
       IN (IF k = 0 THEN <<>>
           ELSE << asst >> \o
                [i \in 1..n |-> [role |-> "tool", content |-> res[i],
                                 tool_use_id |-> r.tool_calls[i].id]])
          \o RoundMessages(Tail(rs), SubSeq(res, n + 1, Len(res)), with_content)

\* C17: what a turn has appended to the working list and to the history is,
\* at any time, per round with k tool calls one assistant message carrying
\* the k calls followed by the tool messages of the calls answered so far
\* (call order, call id, dispatcher result), and a model call is made, or
\* the loop left, only when every call of every round has its tool message.
C17_RoundAppendsCallsThenResults ==
  /\ SubSeq(messages, mbase + 1, Len(messages)) = RoundMessages(rounds, results, TRUE)
  /\ LET appended == SubSeq(history, hbase + 1, Len(history))
         expected == RoundMessages(rounds, results, FALSE)
     IN \/ appended = expected
        \/ /\ tpc \in {"done", "aborted"}
           /\ appended = Append(expected, [role |-> "assistant", content |-> full_content])
  /\ tpc \in {"model", "finish", "done"} => Len(results) = TotalCalls(rounds)
  /\ tpc = "dispatch" =>
       /\ ti < Len(tool_calls)
       /\ Len(results) = TotalCalls(rounds) - Len(tool_calls) + ti

\* The two calls of a first round have been answered and the second model
\* call of the turn is about to be made.
C17_Witness ==
  /\ tpc = "model"
  /\ round = 1
  /\ Len(rounds[1].tool_calls) = 2
  /\ Len(results) = 2
  /\ messages[Len(messages)].role = "tool"
  /\ messages[Len(messages)].tool_use_id = "t2"
  /\ history[Len(history)].tool_use_id = "t2"

\* C18 (as claimed): every tool message of the history is preceded, in the
\* history, by an assistant message carrying a tool call with its id.
C18_ToolMessageHasItsCall ==
  \A i \in DOMAIN history :
    history[i].role = "tool" =>
      \E j \in 1..(i - 1) :
        /\ "tool_calls" \in DOMAIN history[j]
        /\ \E k \in DOMAIN history[j].tool_calls :
             history[j].tool_calls[k].id = history[i].tool_use_id

\* The canonical messages that have a counterpart in the payload of adapter
\* a, in order: the Anthropic conversion moves the system messages out of the
\* message list, every other message becomes exactly one vendor message.
PayloadSources(a, msgs) ==
  IF a = "anthropic" THEN SelectSeq(msgs, LAMBDA m : m.role # "system") ELSE msgs

\* The id by which the vendor message v of adapter a names the tool call it
\* answers.
VendorToolResultId(a, v) ==
  CASE a = "anthropic" -> v.content[1].tool_use_id
    [] a = "openai"    -> v.tool_call_id
    [] OTHER           -> v.tool_use_id

\* C19 (as claimed): in the payload of every model call, for every adapter,
\* the vendor message made of a tool message names the tool call by the id
\* the orchestrator stored on the canonical message.
C19_ToolResultKeyedById ==
  [][ calls' = calls + 1 =>
        LET src == PayloadSources(adapter, messages) IN
        /\ Len(payload'.messages) = Len(src)
        /\ \A i \in DOMAIN src :
             src[i].role = "tool" =>
               VendorToolResultId(adapter, payload'.messages[i]) = src[i].tool_use_id
    ]_vars

\* The tool calls the response normalizer of adapter a reads out of the
\* vendor-format assistant message v.
ParsedBack(a, v) ==
  IF a = "anthropic"
  THEN AnthropicNormalizeResponse([content |-> v.content, usage |-> <<>>]).tool_calls
  ELSE OpenAINormalizeResponse(
         [message |-> [content |-> Get(v, "content", <<>>),
                       tool_calls |-> v.tool_calls],
          usage |-> <<>>]).tool_calls

\* C20: in the payload of every model call of the Anthropic and the
\* OpenAI-compatible adapter, the vendor message made of an assistant
\* message with tool calls, read back by that adapter's response
\* normalizer, gives the same tool calls (id, name, arguments) in the same
\* order.
C20_ToolCallsRoundTrip ==
  [][ (calls' = calls + 1 /\ adapter \in {"anthropic", "openai"}) =>
        LET src == PayloadSources(adapter, messages) IN
        /\ Len(payload'.messages) = Len(src)
        /\ \A i \in DOMAIN src :
             (src[i].role = "assistant" /\ "tool_calls" \in DOMAIN src[i]) =>
               ParsedBack(adapter, payload'.messages[i]) = src[i].tool_calls
    ]_vars

\* The OpenAI-compatible adapter has sent an assistant message with two
\* tool calls, the first with its arguments serialised as JSON text.
C20_Witness ==
  /\ adapter = "openai"
  /\ \E i \in DOMAIN payload.messages :
       /\ payload.messages[i].role = "assistant"
       /\ "tool_calls" \in DOMAIN payload.messages[i]
       /\ Len(payload.messages[i].tool_calls) = 2
       /\ payload.messages[i].tool_calls[1].function.arguments
            = <<"{", "code", ":", "1", "}">>
       /\ messages[i].tool_calls[1].arguments = {<<"code", "1">>}

\* The estimated size of the messages h[k..Len(h)], counted message by
\* message: a quarter of the content length rounded down, 0 without content.
SizeOf(msg) == IF "content" \in DOMAIN msg THEN Len(msg.content) \div 4 ELSE 0
RECURSIVE SuffixSize(_, _)
SuffixSize(h, k) == IF k > Len(h) THEN 0 ELSE SizeOf(h[k]) + SuffixSize(h, k + 1)

\* The longest suffix of h whose size is at most budget, the last message
\* alone when no non-empty suffix fits, nothing for an empty h.
LongestFittingSuffix(h, budget) ==
  IF h = <<>> THEN <<>>
  ELSE LET fits == {k \in 1..Len(h) : SuffixSize(h, k) <= budget}
           from == IF fits = {} THEN Len(h)
                   ELSE CHOOSE k \in fits : \A j \in fits : k <= j
       IN SubSeq(h, from, Len(h))

\* C21: trim_history leaves exactly the longest suffix of the prior history whose estimated
\* size is at most the budget, or the last message alone when no non-empty
\* suffix fits; a non-empty history is never emptied.
C21_TrimLeavesLongestFittingSuffix ==
  [][ (tpc' = "trimmed" /\ tpc # "trimmed") =>
        /\ history' = LongestFittingSuffix(history, TrimBudget)
        /\ history # <<>> => history' # <<>> ]_vars

\* A trimmed history of several messages that begins where an eviction
\* stopped: it fits the budget, and one more message would not.
C21_Witness ==
  /\ tpc = "trimmed"
  /\ Len(history) = 2
  /\ EstimateTokens(history) = TrimBudget
  /\ history[1].role = "tool"
  /\ history[2].role = "user"

\* C22: when a model call or a tool dispatch fails in the middle of a turn
\* the turn is aborted with the history as it was at the failure: the user
\* message of the turn and the assistant tool-call and tool-result messages
\* of the steps completed before it are all there, the failing step adds
\* and removes nothing, and nothing is appended until the next turn starts.
C22_AbortKeepsHistory ==
  /\ [](tpc = "aborted" =>
          /\ turn_error # NoExc
          /\ Len(history) >= hbase
          /\ history[hbase] \in {Message("user", t) : t \in UserTexts}
          /\ LET appended == SubSeq(history, hbase + 1, Len(history))
                 expected == RoundMessages(rounds, results, FALSE)
             IN \/ appended = expected
                \/ appended = Append(expected, Message("assistant", full_content)))
  /\ [][ (tpc \in {"model", "dispatch"} /\ tpc' = "aborted") => history' = history ]_vars
  /\ [][ tpc = "aborted" => (history' = history \/ turns' = turns + 1) ]_vars

\* The dispatch of the second round's call fails after a first round of two
\* answered calls: the turn is aborted with the user message, the two
\* assistant tool-call messages and the two tool messages in the history.
C22_Witness ==
  /\ tpc = "aborted"
  /\ turn_error = RequestException
  /\ turns = 1
  /\ round = 1
  /\ Len(results) = 2
  /\ Len(history) = 5
  /\ history[1].role = "user"
  /\ history[4].role = "tool"
  /\ "tool_calls" \in DOMAIN history[5]

\* C23 (as claimed): the dispatch of a send_code or silence call never
\* aborts the turn, whether the playground answers or not: the step appends
\* one tool-role message for the call to the history and the loop goes on.
C23_PlaygroundFailureNonFatal ==
  [][ (tpc = "dispatch" /\ tool_calls[ti + 1].name \in {"send_code", "silence"}) =>
        /\ tpc' # "aborted"
        /\ turn_error' = NoExc
        /\ Len(history') = Len(history) + 1
        /\ history'[Len(history')].role = "tool"
        /\ history'[Len(history')].tool_use_id = tool_calls[ti + 1].id ]_vars

C28_WaitsFollowSchedule ==
  /\ \A n \in 0..(Len(waits) - 1) : waits[n + 1] = RETRY_BACKOFF[Min(n, 2) + 1]
  /\ \A i \in 1..(Len(waits) - 1) : waits[i] <= waits[i + 1]

\* C29 (as claimed): the Anthropic adapter puts every non-2xx status of a
\* first attempt into one class: 401 raises the credential error, 429 and
\* every status from 500 to 599 are retryable (a backoff wait follows and
\* nothing is raised), every other status raises at once with no wait.
C29_StatusClasses ==
  (adapter = "anthropic" /\ Len(responses) = 1 /\ ~RespOk(responses[1])
     /\ pc \in {"sleep_connect", "raised"}) =>
    LET st == responses[1].status IN
    IF st = 401
    THEN pc = "raised" /\ outcome.what = "invalid_api_key" /\ waits = <<>>
    ELSE IF st = 429 \/ st \in 500..599
    THEN pc = "sleep_connect" /\ outcome = NoExc /\ waits = << RETRY_BACKOFF[1] >>
    ELSE pc = "raised" /\ outcome.what = "api_error" /\ waits = <<>>

\* The tool-call deltas of the lines ls[from..to], in order of arrival.
RECURSIVE DeltasIn(_, _, _)
DeltasIn(ls, from, to) ==
  IF from > to THEN <<>> ELSE ls[from].tool_calls \o DeltasIn(ls, from + 1, to)

\* The fragments of the deltas ds joined, and the last name they carry.
RECURSIVE JoinedArguments(_)
JoinedArguments(ds) ==
  IF ds = <<>> THEN <<>> ELSE Head(ds).arguments \o JoinedArguments(Tail(ds))
RECURSIVE LastName(_)
LastName(ds) ==
  IF ds = <<>> THEN ""
  ELSE IF LastName(Tail(ds)) # "" THEN LastName(Tail(ds)) ELSE Head(ds).name

\* The elements of the set S of numbers as an ascending sequence.
RECURSIVE Ascending(_)
Ascending(S) ==
  IF S = {} THEN <<>>
  ELSE LET hi == CHOOSE x \in S : \A y \in S : y <= x
       IN Append(Ascending(S \ {hi}), hi)

\* The tool calls the vendor has described in the lines ls[from..to]: one
\* per index, in ascending index order, each with the id of the first delta
\* of its index and the parse of the fragments of its index alone (the empty
\* mapping when there is none or it does not parse).
CallsDescribed(ls, from, to) ==
  LET ds  == DeltasIn(ls, from, to)
      idx == Ascending({ds[k].index : k \in DOMAIN ds})
      of(i) == SelectSeq(ds, LAMBDA d : d.index = i)
      text(i) == JoinedArguments(of(i))
  IN [k \in DOMAIN idx |->
        ToolCall(of(idx[k])[1].id, LastName(of(idx[k])),
                 IF text(idx[k]) # <<>> /\ JsonLoads(text(idx[k])).ok
                 THEN JsonLoads(text(idx[k])).value ELSE {})]

\* The chunks the lines ls[i..Len(ls)] are to produce when the calls
\* described since the last finish reason start at line from.
RECURSIVE ChunksExpected(_, _, _)
ChunksExpected(ls, i, from) ==
  IF i > Len(ls) THEN <<>>
  ELSE LET e == ls[i]
           text == IF e.content # <<>> THEN << Chunk(e.content, <<>>, FALSE, 0, 0) >>
                   ELSE <<>>
           described == CallsDescribed(ls, from, i)
       IN IF e.finish = "" THEN text \o ChunksExpected(ls, i + 1, from)
          ELSE text
               \o (IF described # <<>> THEN << Chunk(<<>>, described, FALSE, 0, 0) >>
                   ELSE <<>>)
               \o << Chunk(<<>>, <<>>, TRUE, 0, 0) >>
               \o ChunksExpected(ls, i + 1, i + 1)

\* C30: the OpenAI-compatible stream decoder surfaces no tool call before a
\* finish reason; at a finish reason the calls described since the last one
\* are delivered once, in one chunk, in ascending index order, each with the
\* fragments of its own index, and the done chunk follows that chunk
\* directly.
C30_ToolCallsBufferedUntilFinish ==
  (adapter = "openai" /\ stream /\ Len(streams) = 1
     /\ \A k \in DOMAIN streams[1] : streams[1][k] \in OpenAIToolLines) =>
    /\ yielded = ChunksExpected(streams[1], 1, 1)
    /\ \A i \in DOMAIN yielded :
         yielded[i].tool_calls # <<>> =>
           /\ i < Len(yielded)
           /\ yielded[i + 1].done
    /\ (\A k \in DOMAIN streams[1] : streams[1][k].finish = "") =>
         \A i \in DOMAIN yielded : yielded[i].tool_calls = <<>>

\* The deltas of index 1 and index 0 arrive interleaved, index 1 first, and
\* the finish reason delivers t1 before t2, each with its own arguments.
C30_Witness ==
  /\ adapter = "openai" /\ pc = "iter"
  /\ Len(streams[1]) = 5
  /\ SubSeq(streams[1], 1, 4) =
       << OLine("chunk", <<>>, TRUE, <<>>, << TcDelta(1, "t2", "send_code", Frag1) >>, ""),
          OLine("chunk", <<>>, TRUE, <<>>, << TcDelta(0, "t1", "send_code", Frag1) >>, ""),
          OLine("chunk", <<>>, TRUE, <<>>, << TcDelta(1, "", "", Frag2) >>, ""),
          OLine("chunk", <<>>, TRUE, <<>>, << TcDelta(0, "", "", Frag2) >>, "") >>
  /\ yielded = << Chunk(<<>>, << ToolCall("t1", "send_code", {<<"a", "1">>, <<"b", "2">>}),
                                 ToolCall("t2", "send_code", {<<"a", "1">>, <<"b", "2">>}) >>,
                         FALSE, 0, 0),
                  Chunk(<<>>, <<>>, TRUE, 0, 0) >>

\* No set_model call lies between the entries i and j of plog.
SameModelPeriod(i, j) == \A k \in (i + 1)..j : plog[k].op # "set_model"

\* The model that is active at entry i of plog: the one of the last
\* set_model call before it, or the model of the construction.
ActiveModel(i) ==
  LET sets == {k \in 1..i : plog[k].op = "set_model"}
  IN IF sets = {} THEN "m1"
     ELSE plog[CHOOSE k \in sets : \A l \in sets : l <= k].model

\* Whether the answer ans of /api/show says the model can call tools.
SaysTools(ans) == ~ans.exc /\ ans.status = 200 /\ (ans.template \/ ans.model_info)

\* C26: between two set_model calls the local-model adapter sends at most
\* one capability query, however often supports_tools is called, and all
\* those calls return the same value; every value returned is the result of
\* a query sent after the last set_model for the model then active, so the
\* first call after a set_model queries afresh and the answer of the
\* previous model is never returned.
C26_ProbeCachedPerModel ==
  \A i \in DOMAIN plog : \A j \in i..Len(plog) :
    SameModelPeriod(i, j) =>
      /\ (plog[i].op = "query" /\ plog[j].op = "query") => i = j
      /\ (plog[i].op = "return" /\ plog[j].op = "return") => plog[i].value = plog[j].value
      /\ (i = j /\ plog[j].op = "return") =>
           \E q \in 1..(j - 1) :
             /\ plog[q].op = "query"
             /\ SameModelPeriod(q, j)
             /\ plog[q].model = ActiveModel(j)
             /\ plog[j].value = SaysTools(plog[q].answer)

\* Two calls for m1 answered from one query that found tools, a switch to
\* m2, and a call that queries m2, finds none and returns false.
C26_Witness ==
  /\ Len(plog) = 6
  /\ plog[1].op = "query" /\ plog[1].model = "m1" /\ SaysTools(plog[1].answer)
  /\ plog[2].op = "return" /\ plog[2].value
  /\ plog[3].op = "return" /\ plog[3].value
  /\ plog[4].op = "set_model" /\ plog[4].model = "m2"
  /\ plog[5].op = "query" /\ plog[5].model = "m2" /\ plog[5].answer.status = 404
  /\ plog[6].op = "return" /\ ~plog[6].value

\* C24 (as claimed): web conversations are independent: the message list
\* of every model call made for a client holds no user message of another
\* client, and the calls of one turn of a client all go to the model that
\* was active when the turn began, whatever the other clients switch to.
C24_ConversationsIndependent ==
  \A c \in Clients : \A k \in DOMAIN sent[c] :
    /\ \A i \in DOMAIN sent[c][k].messages :
         sent[c][k].messages[i].role = "user" =>
           sent[c][k].messages[i].content = UserTextOf(c)
    /\ ~sent[c][k].first => sent[c][k].model = sent[c][k - 1].model

\* C25 (as claimed): when the consumer cancels a streaming call, while the
\* stream is read or during a backoff wait, every response stream the call
\* has opened is closed, and no HTTP request is made for the call after
\* the cancellation.
C25_CancelClosesStream ==
  /\ [](pc = "cancelled" => closed = 1..Len(streams))
  /\ [][ pc = "cancelled" => requests' = requests ]_vars


\* C31: in the streaming path of the Anthropic adapter, where a response
\* stream is a response the connection phase accepted and the decoder
\* reads, at most one stream of a call is open at any time: the stream
\* being read is the only open one, every earlier stream is closed before
\* the next request is posted, and once the call has ended (returned,
\* raised, or abandoned by its consumer) every stream it opened is closed.
OpenStreams == (1..Len(streams)) \ closed

C32_EndsWithDoneOrError ==
  <>(\/ pc = "raised"
     \/ /\ pc = "returned"
        /\ yielded # <<>>
        /\ Last(yielded).done)

\* The termination half of C32 alone: every such call eventually returns
\* or raises, also when every attempt fails transiently.
C32_Terminates == <>(pc \in {"returned", "raised"})

\* The tool calls delivered in the chunks cs, in order.
RECURSIVE ToolCallsDelivered(_)
ToolCallsDelivered(cs) ==
  IF cs = <<>> THEN <<>> ELSE Head(cs).tool_calls \o ToolCallsDelivered(Tail(cs))

\* C37 (as claimed): when an OpenAI-compatible response stream in which
\* tool-call fragments arrived has ended, with or without a finish reason,
\* every tool call the vendor described has been delivered in a chunk, none
\* is left in the decoder's buffer, and the last chunk is the done chunk.
C37_BufferedCallsSurfaced ==
  (adapter = "openai" /\ stream /\ pc = "returned" /\ Len(streams) = 1
     /\ \A k \in DOMAIN streams[1] : streams[1][k] \in OpenAIToolLines
     /\ DeltasIn(streams[1], 1, Len(streams[1])) # <<>>) =>
    /\ dec.tool_calls_buf = <<>>
    /\ Len(ToolCallsDelivered(yielded))
         >= Len(CallsDescribed(streams[1], 1, Len(streams[1])))
    /\ yielded # <<>>
    /\ Last(yielded).done

\* C35 (as claimed): every tool result appended during a user turn is shown
\* to the model: when a turn has completed, the message list of its last
\* model call is the whole working list, tool messages of the last
\* permitted round included.
C35_ToolResultsShownToModel ==
  tpc = "done" => payload = ConvertMessages(adapter, messages)

\* The tool calls of the history h from position i on that no later tool
\* message answers: pairs <<position of the assistant message, call id>>.
DanglingCalls(h) ==
  { <<i, k>> \in (DOMAIN h) \X (1..3) :
      /\ Get(h[i], "role", "") = "assistant"
      /\ k \in DOMAIN Get(h[i], "tool_calls", <<>>)
      /\ ~ \E j \in DOMAIN h :
             /\ j > i
             /\ Get(h[j], "role", "") = "tool"
             /\ Get(h[j], "tool_use_id", "") = h[i].tool_calls[k].id }

\* C36 (as claimed): at every turn boundary, after a completed turn or one
\* aborted by an error, every tool call carried by an assistant message of
\* the history is followed by a tool message with the id of that call.
C36_NoDanglingToolCall ==
  tpc \in {"done", "aborted"} => DanglingCalls(history) = {}

\* The tool names the dispatcher knows.
ToolNames == {"send_code", "silence", "get_current_piece"}

\* C39: a dispatch changes the dispatcher's state only when it succeeds: a
\* dispatch that raises (the delivery to the playground failed) leaves the
\* persisted piece and the last-code marker as they were, and a send_code
\* call without code or a call of an unknown tool raises nothing, returns
\* its error string, makes no request to the playground and leaves both as
\* they were.
C39_StateChangesOnlyOnSuccess ==
  [][ (ti' = ti + 1) =>
        LET tc == tool_calls'[1] IN
        /\ turn_error' # NoExc =>
              /\ last_code_sent' = last_code_sent
              /\ piece' = piece
        /\ ((tc.name = "send_code" /\ ArgGet(tc.arguments, "code") = "")
              \/ tc.name \notin ToolNames) =>
              /\ turn_error' = NoExc
              /\ results' = Append(results,
                                   IF tc.name = "send_code"
                                   THEN <<"Error:", "no", "code", "provided.">>
                                   ELSE <<"Unknown", "tool:", tc.name>>)
              /\ contacts' = contacts
              /\ last_code_sent' = last_code_sent
              /\ piece' = piece ]_vars

\* A send_code dispatch of new code has just failed while an earlier piece
\* is persisted and marked as sent.
C39_Witness ==
  /\ ti >= 2
  /\ tool_calls = << ToolCall("t1", "send_code", {<<"code", "2">>}) >>
  /\ turn_error = RequestException
  /\ contacts = << "POST /api/code", "POST /api/code" >>
  /\ last_code_sent = "1"
  /\ piece = "1"

\* The tool calls of the model's response of the round: those of the
\* response stream that came to its end, decoded on its own.
ResponseCalls ==
  ToolCallsOf(AnthropicRun(AnthropicStreamLocals(AnthropicFresh), Last(streams)))

\* C34 (as claimed): in a round the orchestrator collects, and dispatches
\* once each, exactly the tool calls of the model's response, also when the
\* streaming call was retried after a tool-call chunk had been yielded.
C34_ToolCallsDispatchedOnce ==
  pc = "collected" =>
    /\ tool_calls = ResponseCalls
    /\ tpc \in {"model", "finish"} => Len(results) = Len(ResponseCalls)

\* The round in which the retried stream repeats the tool call of the
\* failed one: both have been dispatched.
C34_DispatchedTwice ==
  /\ pc = "collected"
  /\ tpc = "model"
  /\ Len(streams) = 2
  /\ Len(ResponseCalls) = 1
  /\ tool_calls = ResponseCalls \o ResponseCalls
  /\ Len(results) = 2

\* The sessions of the loops l1 and l2 went the same way: as many turns,
\* and in each the same messages appended to the history and the same end
\* (completed or not).
LoopsAgree(l1, l2) ==
  /\ Len(outcomes[l1]) = Len(outcomes[l2])
  /\ \A k \in DOMAIN outcomes[l1] :
       /\ outcomes[l1][k].appended = outcomes[l2][k].appended
       /\ outcomes[l1][k].completed = outcomes[l2][k].completed

\* C33 (as claimed): fed the same user text, model outputs and playground,
\* the three implementations of the orchestration loop take every turn to
\* the same end and append the same messages to the history.
C33_LoopsEquivalent ==
  loop = "end" =>
    /\ LoopsAgree("cli", "ws")
    /\ LoopsAgree("cli", "chat")

\* The part of C33 that holds: the three agree in every session in which
\* the playground answers throughout.
C33_AgreeWhilePlaygroundUp ==
  (loop = "end" /\ \A k \in DOMAIN inputs.ups : inputs.ups[k]) =>
    /\ LoopsAgree("cli", "ws")
    /\ LoopsAgree("cli", "chat")

\* The marker the dispatches of the calls tcs leave, starting from m: the
\* code of the last send_code that had code (every dispatch succeeded).
RECURSIVE MarkerAfter(_, _)
MarkerAfter(tcs, m) ==
  IF tcs = <<>> THEN m
  ELSE LET tc == Head(tcs)
           code == ArgGet(tc.arguments, "code")
       IN MarkerAfter(Tail(tcs),
                      IF tc.name = "send_code" /\ code # "" THEN code
                      ELSE IF tc.name = "silence" THEN ""
                      ELSE m)

\* The tool calls of the rounds rs, in order.
RECURSIVE CallsOfRounds(_)
CallsOfRounds(rs) ==
  IF rs = <<>> THEN <<>> ELSE Head(rs).tool_calls \o CallsOfRounds(Tail(rs))

\* C38 (as claimed): the code a completed web turn reports as sent comes
\* from that turn alone: the code of its own last send_code dispatch, or,
\* when its dispatches sent none, the code delivered by the fallback from
\* its reply ("" when the reply holds none).
C38_ReportedCodeIsOfThisTurn ==
  (loop \in {"ws", "chat"} /\ tpc = "done") =>
    code_sent = (IF MarkerAfter(CallsOfRounds(rounds), "") # ""
                 THEN MarkerAfter(CallsOfRounds(rounds), "")
                 ELSE ExtractCode(full_content))

\* The same statement for the CLI, which resets the marker at the start of
\* each turn: what decides on the fallback is the marker of this turn.
C38_CliMarkerIsOfThisTurn ==
  (loop = "cli" /\ tpc \in {"finish", "done"}) =>
    last_code_sent = MarkerAfter(CallsOfRounds(rounds), "")
====
